---- MODULE Spec2Model ----
(***************************************************************************)
(* A model of the linkway2 attribution / fraud / commission / payout core. *)
(*                                                                         *)
(* Money held in a DecimalField(decimal_places=2) is an integer number of  *)
(* kobo (1/100 naira), which is exactly what the column stores.            *)
(* Database statements run in autocommit mode unless the source wraps them *)
(* in transaction.atomic(); each statement is one atomic step, an atomic   *)
(* block becomes visible to others at its commit.                          *)
(***************************************************************************)
EXTENDS Integers, Sequences, FiniteSets, TLC

VARIABLES
    db_engine,      \* settings.DATABASES["default"]["ENGINE"], fixed per deployment
    now,            \* timezone.now(), in seconds
    users,          \* authentication.User rows
    products,       \* products.Product rows
    links,          \* affiliates.AffiliateLink rows
    attributions,   \* affiliates.AttributionTracking rows, keyed by cookie_id
    clicks,         \* affiliates.ClickTracking rows, id = position
    orders,         \* orders.Order rows, id = position
    commissions,    \* commissions.Commission rows, id = position
    payouts,        \* commissions.Payout rows, id = position
    fraud_logs,     \* analytics.FraudDetectionLog rows
    fraud_calls,    \* number of detect_fraud invocations so far
    fraud_last,     \* how the latest detect_fraud invocation ended
    gateway_calls,  \* calls made to initiate_paystack_transfer (amount in kobo)
    preq,           \* in-flight process_payout_request invocations
    creq,           \* in-flight handle_affiliate_click requests
    calc,           \* in-flight calculate_commission invocations
    calc_last,      \* what the latest calculate_commission invocation returned
    payment_logs,   \* payments.PaymentLog rows
    wreq,           \* Paystack webhook deliveries and how far each has got
    carts,          \* the items of each buyer's active cart
    customer_orders,\* orders.CustomerOrder rows, id = position
    chk             \* the checkout request in flight

envVars == <<db_engine, now>>
catalogVars == <<users, products>>
trackVars == <<links, attributions, clicks>>
fraudVars == <<fraud_logs, fraud_calls, fraud_last>>
ledgerVars == <<commissions, payouts, gateway_calls>>
procVars == <<preq, creq, calc, calc_last>>
hookVars == <<payment_logs, wreq>>
shopVars == <<carts, customer_orders, chk>>

vars == <<db_engine, now, users, products, links, attributions, clicks, orders,
          commissions, payouts, fraud_logs, fraud_calls, fraud_last,
          gateway_calls, preq, creq, calc, calc_last, payment_logs, wreq, carts,
          customer_orders, chk>>

\* None / SQL NULL in a numeric or foreign-key field (ids and times are >= 0);
\* an empty or missing string field is ""
NULL == 0 - 1

----------------------------------------------------------------------------
(* Bounds of the model *)

NComm == 3          \* Commission rows present when payout requests start
NPayoutReq == 2     \* concurrent payout requests
NClickReq == 2      \* concurrent handle_affiliate_click requests
MaxClicks == 3      \* clicks handled in one behaviour
NCalc == 2          \* concurrent commission workers (sweeps or direct calls)
NOrders == 2        \* orders in the commission scenarios
NWebhookReq == 3    \* webhook deliveries in one behaviour
MaxFraudCalls == 2  \* detect_fraud invocations in one fraud scenario
MaxDays == 2        \* days the clock moves on in one approval scenario

(* Program constants *)

MINIMUM_PAYOUT_NGN == 5000
KoboPerNaira == 100

SecondsPerMinute == 60
SecondsPerDay == 86400

Marketers == {"m1", "m2"}
UserIds == {"m1", "m2", "s1"}
LinkIds == {"l1", "l2"}
ProductIds == {"p1", "p2"}
Cookies == {"k1", "k2"}
DbEngines == {"postgresql", "mysql", "sqlite3"}
NetAmounts == {2000 * KoboPerNaira, 3000 * KoboPerNaira, 4000 * KoboPerNaira}
RequestedAmounts == {NULL, 6000 * KoboPerNaira}
PayoutReqs == 1..NPayoutReq
ClickReqs == 1..NClickReq
CalcProcs == 1..NCalc
WebhookReqs == 1..NWebhookReq
Buyers == {"b1", "b2"}
ClickIps == {"10.0.0.1"}
ClickAgents == {"Mozilla/5.0", "curl/8.0"}

\* the clock reading at which the behaviours start (40 days after the epoch)
StartTime == 40 * SecondsPerDay

----------------------------------------------------------------------------
(* Helpers *)

RECURSIVE SumSeq(_)
SumSeq(s) == IF s = <<>> THEN 0 ELSE Head(s) + SumSeq(Tail(s))

\* c.net_commission or Decimal("0")
NetOf(c) == IF commissions[c].net_commission = NULL THEN 0 ELSE commissions[c].net_commission

NetsOf(ids) == [i \in 1..Len(ids) |-> NetOf(ids[i])]

\* django.db.backends.<engine>.features.has_select_for_update; sqlite3 has
\* none and silently ignores select_for_update().  mysql behaves as postgresql.
HasSelectForUpdate(engine) == engine # "sqlite3"

\* ORDER BY approved_at, created_at
OrderBefore(a, b) ==
    \/ commissions[a].approved_at < commissions[b].approved_at
    \/ /\ commissions[a].approved_at = commissions[b].approved_at
       /\ commissions[a].created_at < commissions[b].created_at

RECURSIVE OrderedBy(_)
OrderedBy(S) ==
    IF S = {} THEN <<>>
    ELSE LET first == CHOOSE a \in S : \A b \in S \ {a} : OrderBefore(a, b)
         IN  <<first>> \o OrderedBy(S \ {first})

\* Commission.objects.filter(marketer=marketer, status="approved",
\*     payout__isnull=True).order_by("approved_at", "created_at")
ApprovedCommissions(m) ==
    OrderedBy({c \in 1..Len(commissions) :
                  /\ commissions[c].marketer = m
                  /\ commissions[c].status = "approved"
                  /\ commissions[c].payout = NULL})

\* the loop with `continue` in place of `break`: a later, smaller commission
\* is taken after one that did not fit
RECURSIVE GreedyWalk_SkipAhead(_, _, _, _)
GreedyWalk_SkipAhead(cands, to_pay, running_total, payout_amount) ==
    IF cands = <<>> THEN <<to_pay, running_total>>
    ELSE IF running_total + NetOf(Head(cands)) <= payout_amount
         THEN GreedyWalk_SkipAhead(Tail(cands), Append(to_pay, Head(cands)),
                                   running_total + NetOf(Head(cands)), payout_amount)
         ELSE GreedyWalk_SkipAhead(Tail(cands), to_pay, running_total, payout_amount)

\* the for-loop of process_payout_request: append while the running total
\* stays within payout_amount, break at the first commission that does not fit
RECURSIVE GreedyWalk(_, _, _, _)
GreedyWalk(cands, to_pay, running_total, payout_amount) ==
    IF cands = <<>> THEN <<to_pay, running_total>>
    ELSE IF running_total + NetOf(Head(cands)) <= payout_amount
         THEN GreedyWalk(Tail(cands), Append(to_pay, Head(cands)),
                         running_total + NetOf(Head(cands)), payout_amount)
         ELSE <<to_pay, running_total>>

Min(a, b) == IF a < b THEN a ELSE b

PayoutAmount(requested_amount, total_available) ==
    IF requested_amount # NULL THEN Min(requested_amount, total_available)
    ELSE total_available

IdleReq == [pc |-> "idle", marketer |-> NULL, requested_amount |-> NULL,
            approved_commissions |-> <<>>, commissions_to_pay |-> <<>>,
            running_total |-> 0, payout |-> NULL]

----------------------------------------------------------------------------
(* analytics/services.py: the fraud heuristics engine *)

UpperCase == "ABCDEFGHIJKLMNOPQRSTUVWXYZ"
LowerCase == "abcdefghijklmnopqrstuvwxyz"

LowerChar(ch) ==
    IF \E i \in 1..Len(UpperCase) : SubSeq(UpperCase, i, i) = ch
    THEN LET i == CHOOSE i \in 1..Len(UpperCase) : SubSeq(UpperCase, i, i) = ch
         IN  SubSeq(LowerCase, i, i)
    ELSE ch

\* str.lower()
RECURSIVE Lower(_)
Lower(str) ==
    IF Len(str) = 0 THEN ""
    ELSE LowerChar(SubSeq(str, 1, 1)) \o Lower(SubSeq(str, 2, Len(str)))

\* pattern in ua
Contains(str, pattern) ==
    \E i \in 1..(Len(str) - Len(pattern) + 1) : SubSeq(str, i, i + Len(pattern) - 1) = pattern

bot_patterns == {"bot", "crawler", "spider", "scraper", "curl", "wget",
                 "python-requests", "java", "scrapy"}

MatchesBotPattern(user_agent) ==
    IF user_agent = "" THEN FALSE
    ELSE \E pattern \in bot_patterns : Contains(Lower(user_agent), pattern)

\* the user agents requests carry in this model, and those of them the
\* patterns match (evaluated once)
UserAgents == {"", "Mozilla/5.0", "curl/8.0", "python-requests/2.28", "Googlebot/2.1", "JAVA/17"}
BotAgents == {user_agent \in UserAgents : MatchesBotPattern(user_agent)}

is_bot_user_agent(user_agent) == user_agent \in BotAgents

\* Scores are floats in the source and hundredths here.  Every sum the code
\* can form (0.4+0.3, 0.4+0.5, 0.3+0.5, 0.5+0.4, 0.5+0.3, 0.6, 0.7, ...)
\* compares with 0.3, 0.7 and 1.0 as the exact decimal sum does; the only
\* inexact sum, 0.7+0.6 = 1.2999999999999998, is clamped to 1.0.
Hit(signal, points) == <<[signal |-> signal, points |-> points]>>

\* five clicks from one address on one link already count as click spam
ClickHeuristics_FiveIsSpam(click) ==
    LET recent_clicks_same_ip ==
            Cardinality({c \in 1..Len(clicks) :
                            /\ clicks[c].ip_address = click.ip_address
                            /\ clicks[c].link = click.link
                            /\ clicks[c].clicked_at > now - 5 * SecondsPerMinute})
        clicks_past_minute ==
            Cardinality({c \in 1..Len(clicks) :
                            /\ clicks[c].ip_address = click.ip_address
                            /\ clicks[c].clicked_at > now - 1 * SecondsPerMinute})
    IN  (IF recent_clicks_same_ip >= 5 THEN Hit("Click spam from same IP", 40) ELSE <<>>)
        \o (IF clicks_past_minute > 10 THEN Hit("Impossible click velocity", 30) ELSE <<>>)
        \o (IF is_bot_user_agent(click.user_agent) THEN Hit("Bot user agent detected", 50) ELSE <<>>)

ClickHeuristics(click) ==
    LET recent_clicks_same_ip ==
            Cardinality({c \in 1..Len(clicks) :
                            /\ clicks[c].ip_address = click.ip_address
                            /\ clicks[c].link = click.link
                            /\ clicks[c].clicked_at > now - 5 * SecondsPerMinute})
        clicks_past_minute ==
            Cardinality({c \in 1..Len(clicks) :
                            /\ clicks[c].ip_address = click.ip_address
                            /\ clicks[c].clicked_at > now - 1 * SecondsPerMinute})
    IN  (IF recent_clicks_same_ip > 5 THEN Hit("Click spam from same IP", 40) ELSE <<>>)
        \o (IF clicks_past_minute > 10 THEN Hit("Impossible click velocity", 30) ELSE <<>>)
        \o (IF is_bot_user_agent(click.user_agent) THEN Hit("Bot user agent detected", 50) ELSE <<>>)

\* ClickTracking.objects.filter(cookie_id=...).order_by("clicked_at")
\*     .values_list("ip_address", flat=True).first()
FirstClickIp(cookie_id) ==
    LET mine == {c \in 1..Len(clicks) : clicks[c].cookie_id = cookie_id}
    IN  IF mine = {} THEN ""
        ELSE LET first == CHOOSE c \in mine : \A d \in mine :
                              \/ clicks[c].clicked_at < clicks[d].clicked_at
                              \/ clicks[c].clicked_at = clicks[d].clicked_at /\ c <= d
             IN  clicks[first].ip_address

\* lines 89-121: the checks made when an attribution record was found
AttributedOrderHeuristics(order) ==
    LET attribution == attributions[order.attribution_cookie_id]
        time_since_first_click == order.created_at - attribution.created_at
        click_ip == FirstClickIp(order.attribution_cookie_id)
        orders_same_ip ==
            Cardinality({o \in 1..Len(orders) :
                            /\ orders[o].created_at > now - 24 * 60 * SecondsPerMinute
                            /\ \E c \in 1..Len(clicks) :
                                  /\ clicks[c].ip_address = click_ip
                                  /\ clicks[c].cookie_id = orders[o].attribution_cookie_id})
        new_marketer ==
            /\ order.marketer # ""
            /\ (now - users[order.marketer].created_at) \div SecondsPerDay < 7
            /\ order.total_amount > 100000 * KoboPerNaira
    IN  (IF time_since_first_click < 10 THEN Hit("Suspiciously fast conversion", 50) ELSE <<>>)
        \o (IF click_ip # "" /\ orders_same_ip > 3 THEN Hit("Multiple orders from same IP", 40) ELSE <<>>)
        \o (IF new_marketer THEN Hit("High-value order by new marketer", 30) ELSE <<>>)

\* a missing attribution record weighs too little to flag the order
OrderHeuristics_WeakNoAttribution(order) ==
    IF order.attribution_cookie_id = "" \/ order.attribution_cookie_id \notin DOMAIN attributions
    THEN Hit("No attribution record found", 20)
    ELSE AttributedOrderHeuristics(order)

OrderHeuristics(order) ==
    IF order.attribution_cookie_id = "" \/ order.attribution_cookie_id \notin DOMAIN attributions
    THEN Hit("No attribution record found", 60)
    ELSE AttributedOrderHeuristics(order)

RECURSIVE SumOver(_, _)
SumOver(S, f) ==
    IF S = {} THEN 0 ELSE LET x == CHOOSE x \in S : TRUE IN f[x] + SumOver(S \ {x}, f)

\* the registration_ip lookup of the source has no effect and is left out
MarketerHeuristics(id) ==
    LET marketer == users[id]
        duplicate_accounts ==
            {u \in UserIds \ {id} : users[u].account_number = marketer.account_number}
        mine == {l \in LinkIds : links[l].marketer = id}
        total_clicks == SumOver(mine, [l \in mine |-> links[l].click_count])
        total_conversions == Cardinality({o \in 1..Len(orders) : orders[o].marketer = id})
    IN  (IF marketer.account_number # "" /\ duplicate_accounts # {}
         THEN Hit("Bank account used by multiple marketers", 70) ELSE <<>>)
        \o (IF total_clicks > 0 /\ total_conversions * 100 > 20 * total_clicks
            THEN Hit("Abnormally high conversion rate", 60) ELSE <<>>)

EntityTypes == {"click", "order", "marketer", "product"}

\* the try/except ...DoesNotExist of each branch
EntityFound(entity_type, entity_id) ==
    CASE entity_type = "click" -> entity_id \in 1..Len(clicks)
      [] entity_type = "order" -> entity_id \in 1..Len(orders)
      [] entity_type = "marketer" -> entity_id \in UserIds /\ users[entity_id].role = "marketer"
      [] OTHER -> TRUE

Heuristics(entity_type, entity_id) ==
    CASE entity_type = "click" -> ClickHeuristics(clicks[entity_id])
      [] entity_type = "order" -> OrderHeuristics(orders[entity_id])
      [] entity_type = "marketer" -> MarketerHeuristics(entity_id)
      [] OTHER -> <<>>

SignalsOf(hits) == [i \in 1..Len(hits) |-> hits[i].signal]
PointsOf(hits) == [i \in 1..Len(hits) |-> hits[i].points]

\* ", ".join(fraud_signals) if fraud_signals else "none"
RECURSIVE Join(_)
Join(signals) ==
    IF Len(signals) = 0 THEN ""
    ELSE IF Len(signals) = 1 THEN signals[1]
    ELSE signals[1] \o ", " \o Join(Tail(signals))

FraudType(signals) == IF signals = <<>> THEN "none" ELSE Join(signals)

\* a score passed on as it was summed
Clamp_Unbounded(fraud_score) == fraud_score

\* fraud_score = min(fraud_score, 1.0)
Clamp(fraud_score) == Min(fraud_score, 100)

ActionFor(fraud_score) ==
    IF fraud_score < 30 THEN "none"
    ELSE IF fraud_score < 70 THEN "flagged"
    ELSE "blocked"

\* FraudDetectionLog.fraud_type is CharField(max_length=50): postgresql and
\* mysql reject a longer value with DataError, sqlite3 stores it
FraudTypeMaxLength == 50
EnforcesMaxLength(engine) == engine # "sqlite3"

EntityIdStr(entity_type, entity_id) ==
    IF entity_type \in {"click", "order"} THEN ToString(entity_id) ELSE entity_id

\* a neutral result that flags the entity
NoResult_Flagged == [outcome |-> "none", entity_type |-> "", entity_id |-> "", found |-> FALSE,
                     fraud_score |-> 30, signals |-> <<>>, action |-> "flagged"]

NoResult == [outcome |-> "none", entity_type |-> "", entity_id |-> "", found |-> FALSE,
             fraud_score |-> 0, signals |-> <<>>, action |-> "none"]

\* line 183: User.objects.filter(id=entity_id).update(is_active=False)
DeactivateMarketer(entity_id) == [users EXCEPT ![entity_id].is_active = FALSE]

\* a suspension that leaves the marketer's links alone
DeactivateLinks_None(entity_id) == links

\* line 184: AffiliateLink.objects.filter(marketer_id=entity_id).update(is_active=False)
DeactivateLinks(entity_id) ==
    [l \in LinkIds |->
        IF links[l].marketer = entity_id THEN [links[l] EXCEPT !.is_active = FALSE]
        ELSE links[l]]

\* a block that leaves the order as it is
CancelOrder_Keep(entity_id) == orders

\* line 186: Order.objects.filter(id=entity_id).update(status="cancelled")
CancelOrder(entity_id) == [orders EXCEPT ![entity_id].status = "cancelled"]

\* a score of exactly 0.3 does not make the click suspicious
FlagClick_AboveThreshold(entity_id, raw_score) ==
    IF raw_score > 0
    THEN [clicks EXCEPT ![entity_id] =
             [@ EXCEPT !.is_suspicious = raw_score > 30,
                       !.is_bot = is_bot_user_agent(clicks[entity_id].user_agent),
                       !.fraud_score = Min(raw_score, 100)]]
    ELSE clicks

\* lines 67-72: the flags written back onto a click that scored above 0
FlagClick(entity_id, raw_score) ==
    IF raw_score > 0
    THEN [clicks EXCEPT ![entity_id] =
             [@ EXCEPT !.is_suspicious = raw_score >= 30,
                       !.is_bot = is_bot_user_agent(clicks[entity_id].user_agent),
                       !.fraud_score = Min(raw_score, 100)]]
    ELSE clicks

\* detect_fraud(entity_type, entity_id): everything the call writes
FraudEffects(entity_type, entity_id) ==
    /\ fraud_calls' = fraud_calls + 1
    /\ IF ~EntityFound(entity_type, entity_id)
       THEN \* return {"fraud_score": 0.0, "signals": [], "action": "none"}
            /\ fraud_last' = [NoResult EXCEPT !.outcome = "returned",
                                              !.entity_type = entity_type,
                                              !.entity_id = EntityIdStr(entity_type, entity_id)]
            /\ UNCHANGED <<clicks, orders, users, links, fraud_logs>>
       ELSE
       LET hits == Heuristics(entity_type, entity_id)
           fraud_signals == SignalsOf(hits)
           raw_score == SumSeq(PointsOf(hits))
           fraud_score == Clamp(raw_score)
           action == ActionFor(fraud_score)
           raises == EnforcesMaxLength(db_engine)
                        /\ Len(FraudType(fraud_signals)) > FraudTypeMaxLength
       IN
       \* lines 67-72: flags written back onto the click before the log row
       /\ clicks' = IF entity_type = "click" THEN FlagClick(entity_id, raw_score) ELSE clicks
       /\ fraud_logs' = IF raises THEN fraud_logs
                        ELSE Append(fraud_logs,
                                    [entity_type |-> entity_type,
                                     entity_id |-> EntityIdStr(entity_type, entity_id),
                                     fraud_type |-> FraudType(fraud_signals),
                                     fraud_score |-> fraud_score,
                                     signals |-> fraud_signals,
                                     action_taken |-> action])
       /\ users' = IF ~raises /\ action = "blocked" /\ entity_type = "marketer"
                   THEN DeactivateMarketer(entity_id)
                   ELSE users
       /\ links' = IF ~raises /\ action = "blocked" /\ entity_type = "marketer"
                   THEN DeactivateLinks(entity_id)
                   ELSE links
       /\ orders' = IF ~raises /\ action = "blocked" /\ entity_type = "order"
                    THEN CancelOrder(entity_id)
                    ELSE orders
       /\ fraud_last' = [outcome |-> IF raises THEN "DataError" ELSE "returned",
                         entity_type |-> entity_type,
                         entity_id |-> EntityIdStr(entity_type, entity_id),
                         found |-> TRUE,
                         fraud_score |-> fraud_score,
                         signals |-> fraud_signals,
                         action |-> action]

\* a direct call of detect_fraud
DetectFraud(entity_type, entity_id) ==
    /\ FraudEffects(entity_type, entity_id)
    /\ UNCHANGED <<envVars, products, attributions, ledgerVars, procVars, hookVars, shopVars>>

----------------------------------------------------------------------------
(* affiliates: handle_affiliate_click and create_or_update_attribution *)

IdleClick == [pc |-> "idle", cookie_id |-> "", link |-> "", ip_address |-> "",
              user_agent |-> "", started_at |-> NULL, chain |-> <<>>, click |-> NULL]

\* {"link_id": str(affiliate_link.id), "timestamp": now.isoformat(), "weight": 1.0}
Touch(link, at) == [link_id |-> link, timestamp |-> at, weight |-> 1]

\* clicks handled or being handled since the behaviour started
ClicksStarted ==
    Cardinality({c \in 1..Len(clicks) : clicks[c].clicked_at >= StartTime})
    + Cardinality({r \in ClickReqs : creq[r].pc \in {"save_attribution", "create_click"}})

\* views.py 157-184 and services.py 50-63: the active link is found and
\* AttributionTracking.objects.get_or_create(cookie_id=...) either inserts the
\* record (the unique cookie_id makes get-or-insert one step) or returns the
\* existing row, whose click_chain the caller now holds in memory.  A ref
\* that names no active link redirects and changes nothing.
ClickStart(r, cookie_id, link, ip_address, user_agent) ==
    /\ creq[r].pc = "idle"
    /\ ClicksStarted < MaxClicks
    /\ links[link].is_active
    /\ LET req == [IdleClick EXCEPT !.cookie_id = cookie_id, !.link = link,
                                    !.ip_address = ip_address, !.user_agent = user_agent,
                                    !.started_at = now]
       IN
       IF cookie_id \notin DOMAIN attributions
       THEN /\ attributions' =
                  [k \in DOMAIN attributions \cup {cookie_id} |->
                      IF k = cookie_id
                      THEN [first_click_link |-> link,
                            last_click_link |-> link,
                            click_chain |-> <<Touch(link, now)>>,
                            created_at |-> now,
                            expires_at |-> now + 30 * SecondsPerDay,
                            converted |-> FALSE,
                            converted_at |-> NULL,
                            order |-> NULL]
                      ELSE attributions[k]]
            /\ creq' = [creq EXCEPT ![r] = [req EXCEPT !.pc = "create_click"]]
       ELSE /\ attributions' = attributions
            /\ creq' = [creq EXCEPT ![r] = [req EXCEPT !.pc = "save_attribution",
                                                       !.chain = attributions[cookie_id].click_chain]]
    /\ UNCHANGED <<envVars, catalogVars, links, clicks, orders, fraudVars, ledgerVars, preq, calc, calc_last, hookVars, shopVars>>

\* a save that starts the chain afresh from the current touch
AttributionSave_Restart(r) ==
    /\ creq[r].pc = "save_attribution"
    /\ attributions' =
          [attributions EXCEPT ![creq[r].cookie_id] =
              [@ EXCEPT !.last_click_link = creq[r].link,
                        !.click_chain = <<Touch(creq[r].link, creq[r].started_at)>>,
                        !.expires_at = creq[r].started_at + 30 * SecondsPerDay]]
    /\ creq' = [creq EXCEPT ![r].pc = "create_click", ![r].chain = <<>>]
    /\ UNCHANGED <<envVars, catalogVars, links, clicks, orders, fraudVars, ledgerVars, preq, calc, calc_last, hookVars, shopVars>>

\* services.py 64-70: the touch is appended to the chain read earlier and
\* the three fields are saved
AttributionSave(r) ==
    /\ creq[r].pc = "save_attribution"
    /\ attributions' =
          [attributions EXCEPT ![creq[r].cookie_id] =
              [@ EXCEPT !.last_click_link = creq[r].link,
                        !.click_chain = Append(creq[r].chain, Touch(creq[r].link, creq[r].started_at)),
                        !.expires_at = creq[r].started_at + 30 * SecondsPerDay]]
    /\ creq' = [creq EXCEPT ![r].pc = "create_click", ![r].chain = <<>>]
    /\ UNCHANGED <<envVars, catalogVars, links, clicks, orders, fraudVars, ledgerVars, preq, calc, calc_last, hookVars, shopVars>>

\* views.py 186-194: ClickTracking.objects.create(...)
ClickCreate(r) ==
    /\ creq[r].pc = "create_click"
    /\ clicks' = Append(clicks, [link |-> creq[r].link,
                                 ip_address |-> creq[r].ip_address,
                                 user_agent |-> creq[r].user_agent,
                                 cookie_id |-> creq[r].cookie_id,
                                 clicked_at |-> now,
                                 is_bot |-> FALSE,
                                 is_suspicious |-> FALSE,
                                 fraud_score |-> 0])
    /\ creq' = [creq EXCEPT ![r].pc = "detect_fraud", ![r].click = Len(clicks) + 1]
    /\ UNCHANGED <<envVars, catalogVars, links, attributions, orders, fraudVars, ledgerVars, preq, calc, calc_last, hookVars, shopVars>>

\* views.py 196: detect_fraud("click", str(click.id)); a DataError raised by
\* the audit insert ends the request before the click counter is touched
ClickDetectFraud(r) ==
    /\ creq[r].pc = "detect_fraud"
    /\ FraudEffects("click", creq[r].click)
    /\ creq' = [creq EXCEPT ![r] = IF fraud_last'.outcome = "DataError" THEN IdleClick
                                   ELSE [@ EXCEPT !.pc = "count_click"]]
    /\ UNCHANGED <<envVars, products, attributions, ledgerVars, preq, calc, calc_last, hookVars, shopVars>>

\* views.py 198-200: click_count = F("click_count") + 1
ClickCount(r) ==
    /\ creq[r].pc = "count_click"
    /\ links' = [links EXCEPT ![creq[r].link].click_count = @ + 1]
    /\ creq' = [creq EXCEPT ![r] = IdleClick]
    /\ UNCHANGED <<envVars, catalogVars, attributions, clicks, orders, fraudVars, ledgerVars, preq, calc, calc_last, hookVars, shopVars>>

----------------------------------------------------------------------------
(* Decimal arithmetic: a Decimal is <<c, e>>, the number c / 10^e, kept with
   c not divisible by 10 so that coefficients stay small.  The arithmetic is
   exact, as Python's is for these sizes; only Quantize rounds. *)

RECURSIVE Pow10(_)
Pow10(n) == IF n = 0 THEN 1 ELSE 10 * Pow10(n - 1)

RECURSIVE Norm(_)
Norm(d) ==
    IF d[1] = 0 THEN <<0, 0>>
    ELSE IF d[1] % 10 = 0 THEN Norm(<<d[1] \div 10, d[2] - 1>>)
    ELSE d

Max(a, b) == IF a > b THEN a ELSE b

\* a value read from a decimal_places=2 column (kobo, hundredths of a percent)
FromStored(n) == Norm(<<n, 2>>)
FromInt(n) == Norm(<<n, 0>>)

DecMul(a, b) == Norm(<<a[1] * b[1], a[2] + b[2]>>)

\* a / Decimal("100")
DecDiv100(a) == Norm(<<a[1], a[2] + 2>>)

DecAdd(a, b) ==
    LET e == Max(a[2], b[2])
    IN  Norm(<<a[1] * Pow10(e - a[2]) + b[1] * Pow10(e - b[2]), e>>)

DecSub(a, b) ==
    LET e == Max(a[2], b[2])
    IN  Norm(<<a[1] * Pow10(e - a[2]) - b[1] * Pow10(e - b[2]), e>>)

\* ROUND_HALF_EVEN of num / den, for num >= 0
RoundHalfEven(num, den) ==
    LET q == num \div den
        r == num % den
    IN  IF 2 * r > den \/ (2 * r = den /\ q % 2 = 1) THEN q + 1 ELSE q

\* rounding half away from zero of num / den, for num >= 0
RoundHalfUp(num, den) ==
    LET q == num \div den
        r == num % den
    IN  IF 2 * r >= den THEN q + 1 ELSE q

\* What a DecimalField(decimal_places=2) column holds after a save, in
\* hundredths.  sqlite3 and mysql get the value quantized by Django
\* (ROUND_HALF_EVEN); postgresql gets the Decimal itself and rounds it to the
\* column's scale, half away from zero.
Quantize(engine, d) ==
    IF d[2] <= 2 THEN d[1] * Pow10(2 - d[2])
    ELSE IF engine = "postgresql" THEN RoundHalfUp(d[1], Pow10(d[2] - 2))
    ELSE RoundHalfEven(d[1], Pow10(d[2] - 2))

----------------------------------------------------------------------------
(* commissions/calculator.py and commissions/tasks.py *)

platform_fee_rate == <<25, 1>>
HoldbackDays == 14

\* lines 20-28
GrossCommission(order) ==
    IF products[order.product].commission_type = "percentage"
    THEN DecDiv100(DecMul(FromStored(order.subtotal),
                          FromStored(products[order.product].commission_rate)))
    ELSE DecMul(FromStored(products[order.product].fixed_commission_amount),
                FromInt(order.quantity))

PlatformFeeAmount(gross_commission) == DecDiv100(DecMul(gross_commission, platform_fee_rate))

NetCommission(gross_commission) == DecSub(gross_commission, PlatformFeeAmount(gross_commission))

IdleCalc == [pc |-> "idle", queue |-> <<>>, commission |-> NULL, link |-> "",
             link_row |-> <<>>]

NoReturn == [order |-> NULL, returned |-> NULL, outcome |-> "none"]

\* return existing / return commission / return None
Return(p, returned, outcome) ==
    [order |-> Head(calc[p].queue).id, returned |-> returned, outcome |-> outcome]

CommissionsOf(order_id) == {c \in 1..Len(commissions) : commissions[c].order = order_id}

\* Commission.objects.filter(order=order).first(): the row with the least
\* primary key stands for whichever row the database returns first
FirstCommissionOf(order_id) ==
    CHOOSE c \in CommissionsOf(order_id) : \A d \in CommissionsOf(order_id) : c <= d

\* the order objects a caller holds: their id and the row as it was read
Loaded(ids) == [i \in 1..Len(ids) |-> [id |-> ids[i], row |-> orders[ids[i]]]]

RECURSIVE Ascending(_)
Ascending(S) ==
    IF S = {} THEN <<>>
    ELSE LET least == CHOOSE a \in S : \A b \in S : a <= b
         IN  <<least>> \o Ascending(S \ {least})

\* tasks.py 13: Order.objects.filter(status="delivered", commissions__isnull=True)
PendingOrders ==
    {o \in 1..Len(orders) : orders[o].status = "delivered" /\ CommissionsOf(o) = {}}

\* the rest of the sweep's loop, or the return of a direct call
Continue(p) ==
    [IdleCalc EXCEPT !.pc = IF Len(calc[p].queue) > 1 THEN "lookup" ELSE "idle",
                     !.queue = Tail(calc[p].queue)]

\* tasks.py 10-13: process_pending_commissions reads the delivered orders
\* that have no commission, then loops over them
SweepStart(p) ==
    /\ calc[p].pc = "idle"
    /\ PendingOrders # {}
    /\ calc' = [calc EXCEPT ![p] = [IdleCalc EXCEPT !.pc = "lookup",
                                                   !.queue = Loaded(Ascending(PendingOrders))]]
    /\ UNCHANGED <<commissions, links, calc_last>>
    /\ UNCHANGED <<envVars, catalogVars, attributions, clicks, orders, fraudVars, payouts,
                   gateway_calls, preq, creq, hookVars, shopVars>>

\* a direct call calculate_commission(order) on an order the caller loaded
DirectCall(p, o) ==
    /\ calc[p].pc = "idle"
    /\ calc' = [calc EXCEPT ![p] = [IdleCalc EXCEPT !.pc = "lookup", !.queue = Loaded(<<o>>)]]
    /\ UNCHANGED <<commissions, links, calc_last>>
    /\ UNCHANGED <<envVars, catalogVars, attributions, clicks, orders, fraudVars, payouts,
                   gateway_calls, preq, creq, hookVars, shopVars>>

\* a calculate_commission that goes on to create whenever the order qualifies
CalcLookup_NoLookup(p) ==
    /\ calc[p].pc = "lookup"
    /\ LET order == Head(calc[p].queue)
       IN
       IF order.row.status # "delivered" \/ order.row.marketer = ""
       THEN /\ calc' = [calc EXCEPT ![p] = Continue(p)]
            /\ calc_last' = Return(p, NULL, "skipped")
       ELSE /\ calc' = [calc EXCEPT ![p].pc = "create"]
            /\ calc_last' = calc_last
    /\ UNCHANGED <<commissions, links>>
    /\ UNCHANGED <<envVars, catalogVars, attributions, clicks, orders, fraudVars, payouts,
                   gateway_calls, preq, creq, hookVars, shopVars>>

\* a calculate_commission that asks only for a marketer, not for delivery
CalcLookup_AnyStatus(p) ==
    /\ calc[p].pc = "lookup"
    /\ LET order == Head(calc[p].queue)
       IN
       IF order.row.marketer = ""
       THEN /\ calc' = [calc EXCEPT ![p] = Continue(p)]
            /\ calc_last' = Return(p, NULL, "skipped")
       ELSE IF CommissionsOf(order.id) # {}
       THEN /\ calc' = [calc EXCEPT ![p] = Continue(p)]
            /\ calc_last' = Return(p, FirstCommissionOf(order.id), "existing")
       ELSE /\ calc' = [calc EXCEPT ![p].pc = "create"]
            /\ calc_last' = calc_last
    /\ UNCHANGED <<commissions, links>>
    /\ UNCHANGED <<envVars, catalogVars, attributions, clicks, orders, fraudVars, payouts,
                   gateway_calls, preq, creq, hookVars, shopVars>>

\* calculator.py 12-18: the guard and the lookup-before-create
CalcLookup(p) ==
    /\ calc[p].pc = "lookup"
    /\ LET order == Head(calc[p].queue)
       IN
       IF order.row.status # "delivered" \/ order.row.marketer = ""
       THEN /\ calc' = [calc EXCEPT ![p] = Continue(p)]
            /\ calc_last' = Return(p, NULL, "skipped")
       ELSE IF CommissionsOf(order.id) # {}
       THEN /\ calc' = [calc EXCEPT ![p] = Continue(p)]
            /\ calc_last' = Return(p, FirstCommissionOf(order.id), "existing")
       ELSE /\ calc' = [calc EXCEPT ![p].pc = "create"]
            /\ calc_last' = calc_last
    /\ UNCHANGED <<commissions, links>>
    /\ UNCHANGED <<envVars, catalogVars, attributions, clicks, orders, fraudVars, payouts,
                   gateway_calls, preq, creq, hookVars, shopVars>>

\* calculator.py 20-46: the amounts and Commission.objects.create(...)
CalcCreate(p) ==
    /\ calc[p].pc = "create"
    /\ LET order == Head(calc[p].queue)
           gross_commission == GrossCommission(order.row)
           delivered_at == IF order.row.delivered_at # NULL THEN order.row.delivered_at ELSE now
       IN
       /\ commissions' = Append(commissions,
              [order |-> order.id,
               marketer |-> order.row.marketer,
               product |-> order.row.product,
               gross_sale_amount |-> order.row.subtotal,
               commission_amount |-> Quantize(db_engine, gross_commission),
               platform_fee_amount |-> Quantize(db_engine, PlatformFeeAmount(gross_commission)),
               net_commission |-> Quantize(db_engine, NetCommission(gross_commission)),
               status |-> "earned",
               holdback_until |-> delivered_at + HoldbackDays * SecondsPerDay,
               approved_at |-> NULL,
               created_at |-> now,
               payout |-> NULL,
               paid_at |-> NULL])
       /\ calc' = [calc EXCEPT ![p].pc = "read_link", ![p].commission = Len(commissions) + 1]
    /\ UNCHANGED <<links, calc_last>>
    /\ UNCHANGED <<envVars, catalogVars, attributions, clicks, orders, fraudVars, payouts,
                   gateway_calls, preq, creq, hookVars, shopVars>>

\* calculator.py 48-51: AffiliateLink.objects.filter(marketer=..., product=...).first()
CalcReadLink(p) ==
    /\ calc[p].pc = "read_link"
    /\ LET order == Head(calc[p].queue)
           found == {l \in LinkIds : /\ links[l].marketer = order.row.marketer
                                     /\ links[l].product = order.row.product}
       IN
       IF found = {}
       THEN /\ calc' = [calc EXCEPT ![p] = Continue(p)]
            /\ calc_last' = Return(p, calc[p].commission, "created")
       ELSE LET l == CHOOSE l \in found : TRUE
            IN  /\ calc' = [calc EXCEPT ![p].pc = "save_link", ![p].link = l,
                                         ![p].link_row = links[l]]
                /\ calc_last' = calc_last
    /\ UNCHANGED <<commissions, links>>
    /\ UNCHANGED <<envVars, catalogVars, attributions, clicks, orders, fraudVars, payouts,
                   gateway_calls, preq, creq, hookVars, shopVars>>

\* calculator.py 52-56: the three counters are incremented on the object read
\* at line 48 and saved with update_fields
CalcSaveLink(p) ==
    /\ calc[p].pc = "save_link"
    /\ LET order == Head(calc[p].queue)
           read == calc[p].link_row
       IN
       links' = [links EXCEPT ![calc[p].link] =
                    [@ EXCEPT !.conversion_count = read.conversion_count + 1,
                              !.total_revenue = read.total_revenue + order.row.subtotal,
                              !.total_commission =
                                  Quantize(db_engine, DecAdd(FromStored(read.total_commission),
                                                            GrossCommission(order.row)))]]
    /\ calc' = [calc EXCEPT ![p] = Continue(p)]
    /\ calc_last' = Return(p, calc[p].commission, "created")
    /\ UNCHANGED commissions
    /\ UNCHANGED <<envVars, catalogVars, attributions, clicks, orders, fraudVars, payouts,
                   gateway_calls, preq, creq, hookVars, shopVars>>

----------------------------------------------------------------------------
(* process_payout_request *)

\* the Payout row created before the second minimum check
PayoutSelect_CreateBeforeCheck(p, m, requested_amount) ==
    /\ preq[p].pc = "idle"
    /\ users[m].bank_name # "" /\ users[m].account_number # ""
    /\ ~HasSelectForUpdate(db_engine)
    /\ LET approved_commissions == ApprovedCommissions(m)
           total_available == SumSeq(NetsOf(approved_commissions))
           walk == GreedyWalk(approved_commissions, <<>>, 0,
                              PayoutAmount(requested_amount, total_available))
       IN
       /\ total_available >= MINIMUM_PAYOUT_NGN * KoboPerNaira
       /\ payouts' = Append(payouts, [marketer |-> m, total_amount |-> walk[2],
                                      commission_count |-> Len(walk[1]),
                                      status |-> "processing",
                                      paystack_transfer_reference |-> NULL,
                                      failure_reason |-> "", completed_at |-> NULL])
       /\ preq' = [preq EXCEPT ![p] =
                      [IdleReq EXCEPT !.pc = IF walk[2] < MINIMUM_PAYOUT_NGN * KoboPerNaira
                                            THEN "ValueError_not_enough" ELSE "returned"]]
    /\ UNCHANGED <<envVars, catalogVars, trackVars, orders, fraudVars, commissions, gateway_calls, creq, calc, calc_last, hookVars, shopVars>>

\* lines 28-61: bank-details check, the candidate read, the greedy selection
\* and the two minimum checks.  Nothing is written.
PayoutSelect(p, m, requested_amount) ==
    /\ preq[p].pc = "idle"
    /\ LET req == [IdleReq EXCEPT !.marketer = m, !.requested_amount = requested_amount]
       IN
       IF users[m].bank_name = "" \/ users[m].account_number = ""
       THEN preq' = [preq EXCEPT ![p] = [IdleReq EXCEPT !.pc = "ValueError_bank"]]
       ELSE IF HasSelectForUpdate(db_engine)
       THEN \* the queryset is evaluated in autocommit mode: Django raises
            \* TransactionManagementError before any row is read
            preq' = [preq EXCEPT ![p] = [IdleReq EXCEPT !.pc = "TransactionManagementError"]]
       ELSE
       LET approved_commissions == ApprovedCommissions(m)
           total_available == SumSeq(NetsOf(approved_commissions))
           payout_amount == PayoutAmount(requested_amount, total_available)
           walk == GreedyWalk(approved_commissions, <<>>, 0, payout_amount)
           read == [req EXCEPT !.approved_commissions = approved_commissions]
       IN
       IF total_available < MINIMUM_PAYOUT_NGN * KoboPerNaira
       THEN preq' = [preq EXCEPT ![p] = [IdleReq EXCEPT !.pc = "ValueError_minimum"]]
       ELSE IF walk[2] < MINIMUM_PAYOUT_NGN * KoboPerNaira
       THEN preq' = [preq EXCEPT ![p] = [read EXCEPT !.pc = "ValueError_not_enough",
                                                     !.commissions_to_pay = walk[1],
                                                     !.running_total = walk[2]]]
       ELSE preq' = [preq EXCEPT ![p] = [read EXCEPT !.pc = "selected",
                                                     !.commissions_to_pay = walk[1],
                                                     !.running_total = walk[2]]]
    /\ UNCHANGED <<envVars, catalogVars, trackVars, orders, fraudVars, ledgerVars, creq, calc, calc_last, hookVars, shopVars>>

\* lines 63-98 when the gateway answers: the atomic block commits the new
\* Payout row, the bulk update of the selected rows and the saved reference.
PayoutCommit(p) ==
    /\ preq[p].pc = "selected"
    /\ LET id == Len(payouts) + 1
           row == [marketer |-> preq[p].marketer,
                   total_amount |-> preq[p].running_total,
                   commission_count |-> Len(preq[p].commissions_to_pay),
                   status |-> "processing",
                   paystack_transfer_reference |-> id,
                   failure_reason |-> "", completed_at |-> NULL]
           ids == {preq[p].commissions_to_pay[i] : i \in 1..Len(preq[p].commissions_to_pay)}
       IN
       /\ payouts' = Append(payouts, row)
       /\ commissions' = [c \in 1..Len(commissions) |->
                             IF c \in ids THEN [commissions[c] EXCEPT !.payout = id]
                             ELSE commissions[c]]
       /\ gateway_calls' = Append(gateway_calls, preq[p].running_total)
       /\ preq' = [preq EXCEPT ![p] = [IdleReq EXCEPT !.pc = "returned", !.payout = id]]
    /\ UNCHANGED <<envVars, catalogVars, trackVars, orders, fraudVars, creq, calc, calc_last, hookVars, shopVars>>

\* lines 63-90 when initiate_paystack_transfer raises (lines 141-142, 160-161
\* or a requests exception): the exception leaves the atomic block, which
\* rolls back the Payout row and the bulk update.
PayoutGatewayError(p) ==
    /\ preq[p].pc = "selected"
    /\ gateway_calls' = Append(gateway_calls, preq[p].running_total)
    /\ preq' = [preq EXCEPT ![p] = [IdleReq EXCEPT !.pc = "RuntimeError_gateway"]]
    /\ UNCHANGED <<envVars, catalogVars, trackVars, orders, fraudVars, commissions, payouts, creq, calc, calc_last, hookVars, shopVars>>

----------------------------------------------------------------------------
(* Clicks on affiliate links *)

IdleHook == [pc |-> "idle", event |-> "", reference |-> NULL, reason |-> "", payout |-> NULL]

\* attribution is <<>> for None and <<row>> for the record read at lines 213-217
IdleCheckout == [pc |-> "idle", buyer |-> "", attribution_cookie_id |-> "",
                 attribution |-> <<>>, items |-> <<>>, customer_order |-> NULL,
                 created_orders |-> <<>>, logs_before |-> 0]

NoCarts == [b \in Buyers |-> <<>>]

UserRow(role, bank_name, account_number, created_at) ==
    [role |-> role, bank_name |-> bank_name, account_number |-> account_number,
     is_active |-> TRUE, created_at |-> created_at]

DefaultUsers ==
    [u \in UserIds |->
        IF u = "m1" THEN UserRow("marketer", "GTB", "0123456789", 0)
        ELSE IF u = "m2" THEN UserRow("marketer", "UBA", "1111111111", 0)
        ELSE UserRow("seller", "", "", 0)]

\* commission_rate is in hundredths of a percent, fixed_commission_amount in kobo
DefaultProducts ==
    [p \in ProductIds |->
        IF p = "p1" THEN [commission_type |-> "percentage", commission_rate |-> 1000,
                          fixed_commission_amount |-> 0]
        ELSE [commission_type |-> "fixed", commission_rate |-> 0,
              fixed_commission_amount |-> 500 * KoboPerNaira]]

LinkRow(marketer, product) ==
    [marketer |-> marketer, product |-> product, is_active |-> TRUE, click_count |-> 0,
     conversion_count |-> 0, total_revenue |-> 0, total_commission |-> 0]

DefaultLinks == [l \in LinkIds |-> IF l = "l1" THEN LinkRow("m1", "p1") ELSE LinkRow("m2", "p1")]

NoRows == <<>>
NoAttributions == [k \in {} |-> NULL]

InitClick ==
    /\ db_engine \in DbEngines
    /\ now = StartTime
    /\ users = DefaultUsers
    /\ products = DefaultProducts
    /\ links = DefaultLinks
    /\ attributions = NoAttributions
    /\ clicks = NoRows
    /\ orders = NoRows
    /\ commissions = NoRows
    /\ payouts = NoRows
    /\ fraud_logs = NoRows
    /\ fraud_calls = 0
    /\ fraud_last = NoResult
    /\ gateway_calls = NoRows
    /\ preq = [p \in PayoutReqs |-> IdleReq]
    /\ creq = [r \in ClickReqs |-> IdleClick]
    /\ calc = [p \in CalcProcs |-> IdleCalc]
    /\ calc_last = NoReturn
    /\ payment_logs = NoRows
    /\ wreq = [w \in WebhookReqs |-> IdleHook]
    /\ carts = NoCarts
    /\ customer_orders = NoRows
    /\ chk = IdleCheckout

NextClick ==
    \E r \in ClickReqs :
        \/ \E k \in Cookies, l \in LinkIds, ip \in ClickIps, ua \in ClickAgents :
              ClickStart(r, k, l, ip, ua)
        \/ AttributionSave(r)
        \/ ClickCreate(r)
        \/ ClickDetectFraud(r)
        \/ ClickCount(r)

SpecClick == InitClick /\ [][NextClick]_vars

\* one request at a time: a click starts only when no other is in flight
NextClickSeq ==
    \E r \in ClickReqs :
        \/ /\ \A q \in ClickReqs : creq[q].pc = "idle"
           /\ \E k \in Cookies, l \in LinkIds, ip \in ClickIps, ua \in ClickAgents :
                 ClickStart(r, k, l, ip, ua)
        \/ AttributionSave(r)
        \/ ClickCreate(r)
        \/ ClickDetectFraud(r)
        \/ ClickCount(r)

SpecClickSeq == InitClick /\ [][NextClickSeq]_vars

----------------------------------------------------------------------------
(* Commission calculation for delivered orders *)

OrderRow(status, marketer, product, quantity, subtotal, cookie, created_at, delivered_at) ==
    [status |-> status, marketer |-> marketer, product |-> product, quantity |-> quantity,
     subtotal |-> subtotal, total_amount |-> subtotal, attribution_cookie_id |-> cookie,
     created_at |-> created_at, delivered_at |-> delivered_at]

\* <<product, quantity, subtotal in kobo>>
Baskets == {<<"p1", 1, 1004>>, <<"p1", 2, 3000 * KoboPerNaira>>,
            <<"p2", 1, 2500 * KoboPerNaira>>, <<"p2", 2, 5000 * KoboPerNaira>>}

\* <<status, marketer>>; at most one order of a scenario is not a delivered
\* order of m1
Fulfilments == {<<"delivered", "m1">>, <<"delivered", "m2">>, <<"pending", "m1">>,
                <<"delivered", "">>}

InitCalc ==
    /\ db_engine \in DbEngines
    /\ now = StartTime
    /\ users = DefaultUsers
    /\ products = DefaultProducts
    /\ links = DefaultLinks
    /\ attributions = NoAttributions
    /\ clicks = NoRows
    /\ \E b \in [1..NOrders -> Baskets], f \in [1..NOrders -> Fulfilments] :
          /\ Cardinality({o \in 1..NOrders : f[o] # <<"delivered", "m1">>}) <= 1
          /\ orders = [o \in 1..NOrders |->
                          OrderRow(f[o][1], f[o][2], b[o][1], b[o][2], b[o][3], "",
                                   StartTime - SecondsPerDay,
                                   IF f[o][1] = "delivered" THEN StartTime - SecondsPerMinute
                                   ELSE NULL)]
    /\ commissions = NoRows
    /\ payouts = NoRows
    /\ fraud_logs = NoRows
    /\ fraud_calls = 0
    /\ fraud_last = NoResult
    /\ gateway_calls = NoRows
    /\ preq = [p \in PayoutReqs |-> IdleReq]
    /\ creq = [r \in ClickReqs |-> IdleClick]
    /\ calc = [p \in CalcProcs |-> IdleCalc]
    /\ calc_last = NoReturn
    /\ payment_logs = NoRows
    /\ wreq = [w \in WebhookReqs |-> IdleHook]
    /\ carts = NoCarts
    /\ customer_orders = NoRows
    /\ chk = IdleCheckout

NextCalc ==
    \E p \in CalcProcs :
        \/ SweepStart(p)
        \/ \E o \in 1..Len(orders) : DirectCall(p, o)
        \/ CalcLookup(p)
        \/ CalcCreate(p)
        \/ CalcReadLink(p)
        \/ CalcSaveLink(p)

SpecCalc == InitCalc /\ [][NextCalc]_vars

\* one worker at a time: a sweep or a call starts only when none is running
NextCalcSeq ==
    \E p \in CalcProcs :
        \/ /\ \A q \in CalcProcs : calc[q].pc = "idle"
           /\ \/ SweepStart(p)
              \/ \E o \in 1..Len(orders) : DirectCall(p, o)
        \/ CalcLookup(p)
        \/ CalcCreate(p)
        \/ CalcReadLink(p)
        \/ CalcSaveLink(p)

SpecCalcSeq == InitCalc /\ [][NextCalcSeq]_vars

----------------------------------------------------------------------------
(* Fraud scoring of clicks, orders and marketers.  fraud_logs and fraud_calls
   start empty: they hold the audit rows written and the invocations made
   since the start of the behaviour; detect_fraud never reads the table. *)

ClickRow(link, ip_address, user_agent, cookie_id, clicked_at, fraud_score) ==
    [link |-> link, ip_address |-> ip_address, user_agent |-> user_agent,
     cookie_id |-> cookie_id, clicked_at |-> clicked_at, is_bot |-> FALSE,
     is_suspicious |-> fraud_score >= 30, fraud_score |-> fraud_score]

\* the record create_or_update_attribution keeps for the clicks of a cookie
AttributionOf(rows, created_at) ==
    [first_click_link |-> rows[1].link,
     last_click_link |-> rows[Len(rows)].link,
     click_chain |-> [i \in 1..Len(rows) |-> Touch(rows[i].link, rows[i].clicked_at)],
     created_at |-> created_at,
     expires_at |-> rows[Len(rows)].clicked_at + 30 * SecondsPerDay,
     converted |-> FALSE, converted_at |-> NULL, order |-> NULL]

BurstSizes == {0, 5, 10}
BurstAges == {30, 3 * SecondsPerMinute}
ProbeIps == {"10.0.0.1", "10.0.0.2"}
ProbeAgents == {"", "Mozilla/5.0", "curl/8.0"}

\* a click just recorded, after a burst of earlier clicks from one address on
\* l1; the sixth and later clicks of the burst were scored as click spam
ClickScenario ==
    \E n \in BurstSizes, age \in BurstAges, ip \in ProbeIps, l \in LinkIds, ua \in ProbeAgents :
        LET burst == [i \in 1..n |->
                         ClickRow("l1", "10.0.0.1", "Mozilla/5.0", "k1", StartTime - age,
                                  IF i > 5 THEN 40 ELSE 0)]
            rows == Append(burst, ClickRow(l, ip, ua, "k1", StartTime, 0))
        IN  /\ clicks = rows
            /\ attributions = [k \in {"k1"} |-> AttributionOf(rows, rows[1].clicked_at)]
            /\ links = [DefaultLinks EXCEPT !["l1"].click_count = n]
            /\ users = DefaultUsers
            /\ orders = NoRows

FirstClickAges == {5, 60 * SecondsPerMinute}
MarketerAges == {2 * SecondsPerDay, StartTime}
ProbeCookies == {"", "k1", "k2"}
OrderTotals == {3000 * KoboPerNaira, 150000 * KoboPerNaira}
EarlierOrders == {0, 3}

\* an order just placed, with or without an attribution cookie, after none
\* or three earlier orders on cookie k1, whose one click came from 10.0.0.1
OrderScenario ==
    \E first \in FirstClickAges, joined \in MarketerAges, k \in ProbeCookies,
       m \in {"m1", ""}, total \in OrderTotals, e \in EarlierOrders :
        LET rows == <<ClickRow("l1", "10.0.0.1", "Mozilla/5.0", "k1", StartTime - first, 0)>>
            earlier == [i \in 1..e |->
                           OrderRow("pending", "m1", "p1", 1, 3000 * KoboPerNaira, "k1",
                                    StartTime - 1, NULL)]
        IN  /\ (k = "" => m = "")
            /\ clicks = rows
            /\ attributions = [c \in {"k1"} |-> AttributionOf(rows, StartTime - first)]
            /\ links = [DefaultLinks EXCEPT !["l1"].click_count = 1]
            /\ users = [DefaultUsers EXCEPT !["m1"].created_at = StartTime - joined]
            /\ orders = Append(earlier, OrderRow("pending", m, "p1", 1, total, k, StartTime, NULL))

AccountNumbers == {"", "0123456789", "1111111111"}
PastClicks == {0, 10}
PastOrders == {0, 2, 3}

\* marketer m1 with or without past clicks and orders, and bank accounts that
\* coincide with m2's or not
MarketerScenario ==
    \E a1 \in AccountNumbers, a2 \in AccountNumbers \ {""}, n \in PastClicks, e \in PastOrders :
        LET rows == [i \in 1..n |->
                        ClickRow("l1", "10.0.0.1", "Mozilla/5.0", "k1", StartTime - SecondsPerDay - i,
                                 IF i > 5 THEN 40 ELSE 0)]
        IN  /\ clicks = rows
            /\ attributions = IF n = 0 THEN NoAttributions
                              ELSE [k \in {"k1"} |-> AttributionOf(rows, rows[1].clicked_at)]
            /\ links = [DefaultLinks EXCEPT !["l1"].click_count = n]
            /\ users = [DefaultUsers EXCEPT !["m1"].account_number = a1,
                                            !["m2"].account_number = a2]
            /\ orders = [i \in 1..e |->
                            OrderRow("delivered", "m1", "p1", 1, 3000 * KoboPerNaira,
                                     IF n = 0 THEN "" ELSE "k1",
                                     StartTime - SecondsPerDay, StartTime - SecondsPerMinute)]

InitFraud ==
    /\ db_engine \in DbEngines
    /\ now = StartTime
    /\ products = DefaultProducts
    /\ ClickScenario \/ OrderScenario \/ MarketerScenario
    /\ commissions = NoRows
    /\ payouts = NoRows
    /\ fraud_logs = NoRows
    /\ fraud_calls = 0
    /\ fraud_last = NoResult
    /\ gateway_calls = NoRows
    /\ preq = [p \in PayoutReqs |-> IdleReq]
    /\ creq = [r \in ClickReqs |-> IdleClick]
    /\ calc = [p \in CalcProcs |-> IdleCalc]
    /\ calc_last = NoReturn
    /\ payment_logs = NoRows
    /\ wreq = [w \in WebhookReqs |-> IdleHook]
    /\ carts = NoCarts
    /\ customer_orders = NoRows
    /\ chk = IdleCheckout

\* the ids a caller may pass: those of the rows, and one that names no row
EntityIds(entity_type) ==
    CASE entity_type = "click" -> 1..(Len(clicks) + 1)
      [] entity_type = "order" -> 1..(Len(orders) + 1)
      [] entity_type = "marketer" -> UserIds \cup {"m9"}
      [] OTHER -> ProductIds

NextFraud ==
    /\ fraud_calls < MaxFraudCalls
    /\ \E entity_type \in EntityTypes :
          \E entity_id \in EntityIds(entity_type) : DetectFraud(entity_type, entity_id)

SpecFraud == InitFraud /\ [][NextFraud]_vars

----------------------------------------------------------------------------
(* Payout requests against a ledger of existing commissions *)

BankDetails == {<<"GTB", "0123456789">>, <<"", "0123456789">>, <<"GTB", "">>}

\* a row calculate_commission left behind: the gross amount is the one whose
\* net, after the 2.5% fee, is `net`
LedgerRow(i, m, st, net, ap) ==
    [order |-> i, marketer |-> m, product |-> "p1",
     gross_sale_amount |-> 10 * ((net * 1000) \div 975),
     commission_amount |-> (net * 1000) \div 975,
     platform_fee_amount |-> (net * 1000) \div 975 - net,
     net_commission |-> net, status |-> st,
     holdback_until |-> i + HoldbackDays * SecondsPerDay,
     approved_at |-> IF st = "approved" THEN ap ELSE NULL,
     created_at |-> i, payout |-> NULL, paid_at |-> NULL]

\* approved_at of the rows: all approved by one release_held_commissions
\* sweep (equal approved_at, so created_at decides), or one by one by
\* approve_commission in the reverse of their creation order
ApprovalOrders == {[i \in 1..NComm |-> 1], [i \in 1..NComm |-> NComm + 1 - i]}

\* at most one row is not a candidate of m1 (another marketer's, or still earned)
OtherRows == {<<"m2", "approved">>, <<"m1", "earned">>}

InitPayout ==
    /\ db_engine \in DbEngines
    /\ \E b \in BankDetails :
          users = [DefaultUsers EXCEPT !["m1"] = UserRow("marketer", b[1], b[2], 0)]
    /\ \E nets \in [1..NComm -> NetAmounts], aps \in ApprovalOrders,
          odd \in 0..NComm, k \in OtherRows :
          commissions = [i \in 1..NComm |->
                            IF i = odd THEN LedgerRow(i, k[1], k[2], nets[i], aps[i])
                            ELSE LedgerRow(i, "m1", "approved", nets[i], aps[i])]
    /\ payouts = <<>>
    /\ gateway_calls = <<>>
    /\ preq = [p \in PayoutReqs |-> IdleReq]
    /\ now = StartTime
    /\ products = DefaultProducts
    /\ links = DefaultLinks
    /\ attributions = NoAttributions
    /\ clicks = NoRows
    /\ orders = NoRows
    /\ fraud_logs = NoRows
    /\ fraud_calls = 0
    /\ fraud_last = NoResult
    /\ creq = [r \in ClickReqs |-> IdleClick]
    /\ calc = [p \in CalcProcs |-> IdleCalc]
    /\ calc_last = NoReturn
    /\ payment_logs = NoRows
    /\ wreq = [w \in WebhookReqs |-> IdleHook]
    /\ carts = NoCarts
    /\ customer_orders = NoRows
    /\ chk = IdleCheckout

NextPayout ==
    \E p \in PayoutReqs :
        \/ \E m \in Marketers, a \in RequestedAmounts : PayoutSelect(p, m, a)
        \/ PayoutCommit(p)
        \/ PayoutGatewayError(p)

SpecPayout == InitPayout /\ [][NextPayout]_vars

----------------------------------------------------------------------------
(* Approval of commissions: release_held_commissions and approve_commission *)

\* tasks.py 21-26: one UPDATE over the earned rows whose holdback has elapsed
\* holdback_until__lt in place of holdback_until__lte
ReleaseHeld_StrictlyAfter(rows, t) ==
    [c \in DOMAIN rows |->
        IF rows[c].status = "earned" /\ rows[c].holdback_until < t
        THEN [rows[c] EXCEPT !.status = "approved", !.approved_at = t]
        ELSE rows[c]]

ReleaseHeld(rows, t) ==
    [c \in DOMAIN rows |->
        IF rows[c].status = "earned" /\ rows[c].holdback_until <= t
        THEN [rows[c] EXCEPT !.status = "approved", !.approved_at = t]
        ELSE rows[c]]

release_held_commissions ==
    /\ commissions' = ReleaseHeld(commissions, now)
    /\ UNCHANGED <<envVars, catalogVars, trackVars, orders, fraudVars, payouts, gateway_calls,
                   procVars, hookVars, shopVars>>

\* tasks.py 29-37: the row is fetched by id and saved as approved; neither its
\* status nor its holdback_until is read.  A missing id returns (33-34).
approve_commission(commission_id) ==
    /\ commissions' =
          IF commission_id \in DOMAIN commissions
          THEN [commissions EXCEPT ![commission_id].status = "approved",
                                   ![commission_id].approved_at = now]
          ELSE commissions
    /\ UNCHANGED <<envVars, catalogVars, trackVars, orders, fraudVars, payouts, gateway_calls,
                   procVars, hookVars, shopVars>>

\* the clock moves on by a day
Tick ==
    /\ now < StartTime + MaxDays * SecondsPerDay
    /\ now' = now + SecondsPerDay
    /\ UNCHANGED <<db_engine, catalogVars, trackVars, orders, fraudVars, ledgerVars, procVars, hookVars, shopVars>>

\* rows the program has produced: earned by calculate_commission with the
\* holdback still running or elapsed, approved by an earlier sweep after the
\* holdback
HeldStates == {<<"earned", SecondsPerDay>>, <<"earned", 2 * SecondsPerDay>>,
               <<"earned", 0 - SecondsPerDay>>, <<"approved", 0 - SecondsPerDay>>}

HeldRow(i, st, due) ==
    [LedgerRow(i, "m1", st, 3000 * KoboPerNaira, StartTime) EXCEPT
        !.holdback_until = StartTime + due]

InitApproval ==
    /\ db_engine \in DbEngines
    /\ now = StartTime
    /\ \E held \in [1..NComm -> HeldStates] :
          commissions = [i \in 1..NComm |-> HeldRow(i, held[i][1], held[i][2])]
    /\ payouts = <<>>
    /\ gateway_calls = <<>>
    /\ users = DefaultUsers
    /\ products = DefaultProducts
    /\ links = DefaultLinks
    /\ attributions = NoAttributions
    /\ clicks = NoRows
    /\ orders = NoRows
    /\ fraud_logs = NoRows
    /\ fraud_calls = 0
    /\ fraud_last = NoResult
    /\ preq = [p \in PayoutReqs |-> IdleReq]
    /\ creq = [r \in ClickReqs |-> IdleClick]
    /\ calc = [p \in CalcProcs |-> IdleCalc]
    /\ calc_last = NoReturn
    /\ payment_logs = NoRows
    /\ wreq = [w \in WebhookReqs |-> IdleHook]
    /\ carts = NoCarts
    /\ customer_orders = NoRows
    /\ chk = IdleCheckout

NextApproval ==
    \/ release_held_commissions
    \/ \E commission_id \in 1..(NComm + 1) : approve_commission(commission_id)
    \/ Tick

SpecApproval == InitApproval /\ [][NextApproval]_vars

\* CELERY_BEAT_SCHEDULE runs release_held_commissions every 86400 seconds:
\* the sweep is not postponed forever while it has something to release
SpecApprovalFair ==
    InitApproval /\ [][NextApproval]_vars /\ WF_vars(release_held_commissions)

----------------------------------------------------------------------------
(* payments: PaystackWebhookView.post, the transfer events *)

\* the events of the deliveries; "transfer.reversed" stands for every event
\* the view has no branch for.  The charge.success branch (views.py 28-45)
\* is about customer payments and is not delivered here.
WebhookEvents == {"transfer.success", "transfer.failed", "transfer.reversed"}

\* data.reference of a delivery: the reference of a payout (transfers are
\* sent with reference linkway-payout-<id>, services.py 83), one that no
\* payout carries, or none
WebhookReferences == {1, 2, 3, NULL}

\* data.reason of a transfer.failed delivery
WebhookReasons == {"Insufficient balance"}

\* a log table without the unique constraint
LogRaises_Never(reference) == FALSE

\* PaymentLog.reference is unique (payments/models.py 6): a second row with a
\* reference already logged raises IntegrityError at line 25
LogRaises(reference) == \E l \in 1..Len(payment_logs) : payment_logs[l].reference = reference

\* line 49: Payout.objects.filter(paystack_transfer_reference=reference).first()
PayoutByReference(reference) ==
    LET found == {q \in 1..Len(payouts) : payouts[q].paystack_transfer_reference = reference}
    IN  IF found = {} THEN NULL ELSE CHOOSE q \in found : \A r \in found : q <= r

\* lines 20-25 and 48-50: the raw delivery is logged, then the payout is
\* looked up.  reference is NULL for `data.get("reference") or ""`.
WebhookReceive(w, event, reference, reason) ==
    /\ wreq[w].pc = "idle"
    /\ IF LogRaises(reference)
       THEN /\ wreq' = [wreq EXCEPT ![w] = [IdleHook EXCEPT !.pc = "IntegrityError",
                                                           !.event = event,
                                                           !.reference = reference]]
            /\ UNCHANGED payment_logs
       ELSE /\ payment_logs' = Append(payment_logs,
                                      [provider |-> "paystack", reference |-> reference,
                                       raw_payload |-> [event |-> event, reason |-> reason]])
            /\ LET payout == IF event \in {"transfer.success", "transfer.failed"}
                                /\ reference # NULL
                             THEN PayoutByReference(reference) ELSE NULL
               IN  wreq' = [wreq EXCEPT ![w] =
                              [pc |-> IF payout = NULL THEN "returned" ELSE "save",
                               event |-> event, reference |-> reference,
                               reason |-> reason, payout |-> payout]]
    /\ UNCHANGED <<envVars, catalogVars, trackVars, orders, fraudVars, ledgerVars, procVars,
                   shopVars>>

\* lines 51-54 and 56-59: payout.save(update_fields=...) of the row read at 49
WebhookSavePayout(w) ==
    /\ wreq[w].pc = "save"
    /\ IF wreq[w].event = "transfer.success"
       THEN /\ payouts' = [payouts EXCEPT ![wreq[w].payout].status = "completed",
                                          ![wreq[w].payout].completed_at = now]
            /\ wreq' = [wreq EXCEPT ![w].pc = "cascade"]
       ELSE /\ payouts' = [payouts EXCEPT ![wreq[w].payout].status = "failed",
                                          ![wreq[w].payout].failure_reason = wreq[w].reason]
            /\ wreq' = [wreq EXCEPT ![w].pc = "returned"]
    /\ UNCHANGED <<envVars, catalogVars, trackVars, orders, fraudVars, commissions,
                   gateway_calls, procVars, payment_logs, shopVars>>

\* a cascade that pays every commission
PayCommissions_All(payout) ==
    [c \in DOMAIN commissions |-> [commissions[c] EXCEPT !.status = "paid", !.paid_at = now]]

\* line 55: Commission.objects.filter(payout=payout).update(status="paid", paid_at=...)
PayCommissions(payout) ==
    [c \in DOMAIN commissions |->
        IF commissions[c].payout = payout
        THEN [commissions[c] EXCEPT !.status = "paid", !.paid_at = now]
        ELSE commissions[c]]

\* line 55 and the response of line 61
WebhookPayCommissions(w) ==
    /\ wreq[w].pc = "cascade"
    /\ commissions' = PayCommissions(wreq[w].payout)
    /\ wreq' = [wreq EXCEPT ![w].pc = "returned"]
    /\ UNCHANGED <<envVars, catalogVars, trackVars, orders, fraudVars, payouts, gateway_calls,
                   procVars, payment_logs, shopVars>>

\* the ledger after two payouts of m1 were committed: payout 1 claimed the
\* first `k` commissions, payout 2 the others but the last, which is unclaimed
PaidNet == 6000 * KoboPerNaira

ClaimedBy(i, k) == IF i = NComm THEN NULL ELSE IF i <= k THEN 1 ELSE 2

PayoutRow(m, total_amount, commission_count, reference) ==
    [marketer |-> m, total_amount |-> total_amount, commission_count |-> commission_count,
     status |-> "processing", paystack_transfer_reference |-> reference,
     failure_reason |-> "", completed_at |-> NULL]

\* payouts are committed on sqlite3 only: on the other engines the candidate
\* read of process_payout_request raises
InitWebhook ==
    /\ db_engine = "sqlite3"
    /\ now = StartTime
    /\ users = DefaultUsers
    /\ products = DefaultProducts
    /\ links = DefaultLinks
    /\ attributions = NoAttributions
    /\ clicks = NoRows
    /\ orders = NoRows
    /\ \E k \in 1..(NComm - 2) :
          /\ commissions = [i \in 1..NComm |->
                               [LedgerRow(i, "m1", "approved", PaidNet, StartTime) EXCEPT
                                   !.payout = ClaimedBy(i, k)]]
          /\ payouts = <<PayoutRow("m1", k * PaidNet, k, 1),
                         PayoutRow("m1", (NComm - 1 - k) * PaidNet, NComm - 1 - k, 2)>>
    /\ gateway_calls = <<>>
    /\ fraud_logs = NoRows
    /\ fraud_calls = 0
    /\ fraud_last = NoResult
    /\ preq = [p \in PayoutReqs |-> IdleReq]
    /\ creq = [r \in ClickReqs |-> IdleClick]
    /\ calc = [p \in CalcProcs |-> IdleCalc]
    /\ calc_last = NoReturn
    /\ payment_logs = NoRows
    /\ wreq = [w \in WebhookReqs |-> IdleHook]
    /\ carts = NoCarts
    /\ customer_orders = NoRows
    /\ chk = IdleCheckout

NextWebhook ==
    \E w \in WebhookReqs :
        \/ \E event \in WebhookEvents, reference \in WebhookReferences,
              reason \in WebhookReasons :
              WebhookReceive(w, event, reference,
                             IF event = "transfer.failed" THEN reason ELSE "")
        \/ WebhookSavePayout(w)
        \/ WebhookPayCommissions(w)

SpecWebhook == InitWebhook /\ [][NextWebhook]_vars

----------------------------------------------------------------------------
(* orders: CheckoutView.post *)

\* where a checkout request is not running
CheckoutEnded == {"idle", "400", "503", "DataError", "502", "201"}

\* the branch of lines 274-276 taken on the first click instead of the last
MarketerFor_FirstClick(attribution, product) ==
    IF /\ attribution # <<>>
       /\ attribution[1].first_click_link # ""
       /\ links[attribution[1].first_click_link].product = product
    THEN links[attribution[1].first_click_link].marketer
    ELSE ""

\* lines 274-276: the marketer of an order line ("" for None)
MarketerFor(attribution, product) ==
    IF /\ attribution # <<>>
       /\ attribution[1].last_click_link # ""
       /\ links[attribution[1].last_click_link].product = product
    THEN links[attribution[1].last_click_link].marketer
    ELSE ""

RECURSIVE CartSubtotal(_)
CartSubtotal(items) ==
    IF items = <<>> THEN 0
    ELSE Head(items).unit_price * Head(items).quantity + CartSubtotal(Tail(items))

\* lines 199-261: the cart and the attribution record are read, the payment
\* provider must be configured, then the atomic block opens and the
\* CustomerOrder row is created.  attribution_cookie_id is "" without cookie.
CheckoutStart(buyer, attribution_cookie_id, secret_key) ==
    /\ chk.pc \in CheckoutEnded
    /\ fraud_calls < MaxFraudCalls
    /\ LET items == carts[buyer]
           attribution == IF attribution_cookie_id # ""
                             /\ attribution_cookie_id \in DOMAIN attributions
                          THEN <<attributions[attribution_cookie_id]>> ELSE <<>>
       IN
       IF items = <<>>
       THEN /\ chk' = [IdleCheckout EXCEPT !.pc = "400", !.buyer = buyer]
            /\ UNCHANGED customer_orders
       ELSE IF ~secret_key
       THEN /\ chk' = [IdleCheckout EXCEPT !.pc = "503", !.buyer = buyer]
            /\ UNCHANGED customer_orders
       ELSE /\ customer_orders' =
                  Append(customer_orders,
                         [buyer |-> buyer, subtotal |-> CartSubtotal(items),
                          total_amount |-> CartSubtotal(items), payment_status |-> "pending",
                          payment_reference |-> Len(customer_orders) + 1,
                          paystack_reference |-> NULL])
            /\ chk' = [pc |-> "create", buyer |-> buyer,
                       attribution_cookie_id |-> attribution_cookie_id,
                       attribution |-> attribution, items |-> items,
                       customer_order |-> Len(customer_orders) + 1,
                       created_orders |-> <<>>, logs_before |-> Len(fraud_logs)]
    /\ UNCHANGED <<envVars, catalogVars, trackVars, orders, fraudVars, ledgerVars, procVars,
                   hookVars, carts>>

\* lines 267-304: the Order row of the next cart line
CheckoutCreateOrder ==
    /\ chk.pc = "create"
    /\ LET item == Head(chk.items)
           line_subtotal == item.unit_price * item.quantity
           marketer == MarketerFor(chk.attribution, item.product)
       IN
       /\ orders' = Append(orders,
                           OrderRow("pending", marketer, item.product, item.quantity,
                                    line_subtotal, chk.attribution_cookie_id, now, NULL))
       /\ chk' = [chk EXCEPT !.pc = "fraud",
                             !.created_orders = Append(@, Len(orders) + 1)]
    /\ UNCHANGED <<envVars, catalogVars, trackVars, fraudVars, ledgerVars, procVars, hookVars,
                   carts, customer_orders>>

\* detect_fraud raises: the audit row does not fit (services.py 169-179)
FraudRaises(entity_type, entity_id) ==
    /\ EntityFound(entity_type, entity_id)
    /\ EnforcesMaxLength(db_engine)
    /\ Len(FraudType(SignalsOf(Heuristics(entity_type, entity_id)))) > FraudTypeMaxLength

\* line 305: detect_fraud on the order just created.  Its DataError leaves
\* the atomic block of line 247, which rolls back every row of this checkout.
CheckoutDetectFraud ==
    /\ chk.pc = "fraud"
    /\ LET order_id == chk.created_orders[Len(chk.created_orders)]
           hits == Heuristics("order", order_id)
       IN
       IF FraudRaises("order", order_id)
       THEN /\ fraud_calls' = fraud_calls + 1
            /\ fraud_last' = [outcome |-> "DataError", entity_type |-> "order",
                              entity_id |-> EntityIdStr("order", order_id), found |-> TRUE,
                              fraud_score |-> Clamp(SumSeq(PointsOf(hits))),
                              signals |-> SignalsOf(hits),
                              action |-> ActionFor(Clamp(SumSeq(PointsOf(hits))))]
            /\ orders' = SubSeq(orders, 1, chk.created_orders[1] - 1)
            /\ customer_orders' = SubSeq(customer_orders, 1, chk.customer_order - 1)
            /\ fraud_logs' = SubSeq(fraud_logs, 1, chk.logs_before)
            /\ chk' = [IdleCheckout EXCEPT !.pc = "DataError", !.buyer = chk.buyer]
            /\ UNCHANGED <<clicks, users, links>>
       ELSE /\ FraudEffects("order", order_id)
            /\ chk' = [chk EXCEPT !.items = Tail(@),
                                  !.pc = IF Tail(chk.items) = <<>> THEN "finish" ELSE "create"]
            /\ UNCHANGED customer_orders
    /\ UNCHANGED <<envVars, products, attributions, ledgerVars, procVars, hookVars, carts>>

\* lines 308-366: the attribution record read at the start is saved as
\* converted, the cart is emptied and the block commits; then the payment is
\* initialised, and the reference is saved if the provider answers
CheckoutFinish(provider_answers) ==
    /\ chk.pc = "finish"
    /\ attributions' =
          IF chk.attribution # <<>>
          THEN [attributions EXCEPT ![chk.attribution_cookie_id] =
                   [@ EXCEPT !.converted = TRUE, !.converted_at = now,
                             !.order = chk.created_orders[1]]]
          ELSE attributions
    /\ carts' = [carts EXCEPT ![chk.buyer] = <<>>]
    /\ customer_orders' =
          IF provider_answers
          THEN [customer_orders EXCEPT ![chk.customer_order].paystack_reference =
                   customer_orders[chk.customer_order].payment_reference]
          ELSE customer_orders
    /\ chk' = [IdleCheckout EXCEPT !.pc = IF provider_answers THEN "201" ELSE "502",
                                   !.buyer = chk.buyer,
                                   !.attribution_cookie_id = chk.attribution_cookie_id,
                                   !.customer_order = chk.customer_order,
                                   !.created_orders = chk.created_orders]
    /\ UNCHANGED <<envVars, catalogVars, links, clicks, orders, fraudVars, ledgerVars,
                   procVars, hookVars>>

CartItem(product, quantity, unit_price) ==
    [product |-> product, quantity |-> quantity, unit_price |-> unit_price]

\* what the buyers have put in their carts
CartContents == {<<CartItem("p1", 1, 3000 * KoboPerNaira)>>,
                 <<CartItem("p2", 2, 2500 * KoboPerNaira)>>,
                 <<CartItem("p1", 1, 150000 * KoboPerNaira),
                   CartItem("p2", 1, 2500 * KoboPerNaira)>>}

\* the links clicked with cookie k1, oldest first
ClickedLinks == {<<"l1">>, <<"l1", "l2">>, <<"l2", "l1">>}

\* seconds between the first click of k1 and the checkout
CheckoutDelays == {5, SecondsPerDay}

\* m2 promotes p1 or p2; m2 registered 40 days or 1 day before the checkout
SecondLinkProducts == {"p1", "p2"}
SecondMarketerAges == {40 * SecondsPerDay, SecondsPerDay}

InitCheckout ==
    /\ db_engine \in DbEngines
    /\ now = StartTime
    /\ \E age \in SecondMarketerAges :
          users = [DefaultUsers EXCEPT !["m2"].created_at = StartTime - age]
    /\ products = DefaultProducts
    /\ \E product \in SecondLinkProducts :
          links = [DefaultLinks EXCEPT !["l2"].product = product]
    /\ \E clicked \in ClickedLinks, delay \in CheckoutDelays :
          /\ clicks = [i \in 1..Len(clicked) |->
                          ClickRow(clicked[i], "10.0.0.1", "Mozilla/5.0", "k1",
                                   StartTime - delay + i - 1, 0)]
          /\ attributions = [k \in {"k1"} |-> AttributionOf(clicks, StartTime - delay)]
    /\ \E contents \in CartContents :
          carts = [b \in Buyers |-> IF b = "b1" THEN contents
                                    ELSE <<CartItem("p1", 1, 3000 * KoboPerNaira)>>]
    /\ orders = NoRows
    /\ commissions = NoRows
    /\ payouts = NoRows
    /\ gateway_calls = <<>>
    /\ fraud_logs = NoRows
    /\ fraud_calls = 0
    /\ fraud_last = NoResult
    /\ preq = [p \in PayoutReqs |-> IdleReq]
    /\ creq = [r \in ClickReqs |-> IdleClick]
    /\ calc = [p \in CalcProcs |-> IdleCalc]
    /\ calc_last = NoReturn
    /\ payment_logs = NoRows
    /\ wreq = [w \in WebhookReqs |-> IdleHook]
    /\ customer_orders = NoRows
    /\ chk = IdleCheckout

NextCheckout ==
    \/ \E buyer \in Buyers, attribution_cookie_id \in Cookies \cup {""},
          secret_key \in BOOLEAN :
          CheckoutStart(buyer, attribution_cookie_id, secret_key)
    \/ CheckoutCreateOrder
    \/ CheckoutDetectFraud
    \/ \E provider_answers \in BOOLEAN : CheckoutFinish(provider_answers)

SpecCheckout == InitCheckout /\ [][NextCheckout]_vars

----------------------------------------------------------------------------
(* Clicks that follow a burst from one address *)

\* ten clicks of cookie k1 on l1 from one address in the last minute, all
\* counted on the link; the sixth and later ones were scored as click spam
BurstLength == 10

ClickBurst ==
    [i \in 1..BurstLength |->
        ClickRow("l1", "10.0.0.1", "Mozilla/5.0", "k1", StartTime - 30,
                 IF i > 5 THEN 40 ELSE 0)]

InitClickBurst ==
    /\ db_engine \in DbEngines
    /\ now = StartTime
    /\ users = DefaultUsers
    /\ products = DefaultProducts
    /\ links = [DefaultLinks EXCEPT !["l1"].click_count = BurstLength]
    /\ attributions = [k \in {"k1"} |-> AttributionOf(ClickBurst, StartTime - 30)]
    /\ clicks = ClickBurst
    /\ orders = NoRows
    /\ commissions = NoRows
    /\ payouts = NoRows
    /\ fraud_logs = NoRows
    /\ fraud_calls = 0
    /\ fraud_last = NoResult
    /\ gateway_calls = NoRows
    /\ preq = [p \in PayoutReqs |-> IdleReq]
    /\ creq = [r \in ClickReqs |-> IdleClick]
    /\ calc = [p \in CalcProcs |-> IdleCalc]
    /\ calc_last = NoReturn
    /\ payment_logs = NoRows
    /\ wreq = [w \in WebhookReqs |-> IdleHook]
    /\ carts = NoCarts
    /\ customer_orders = NoRows
    /\ chk = IdleCheckout

SpecClickBurst == InitClickBurst /\ [][NextClick]_vars

----------------------------------------------------------------------------
(* The ledger under payout requests, webhook deliveries and approval tasks *)

\* three commissions of m1 past their holdback, the last one approved or
\* still earned, and no payout yet
InitLedger ==
    /\ db_engine \in DbEngines
    /\ now = StartTime
    /\ users = DefaultUsers
    /\ \E st \in {"approved", "earned"} :
          commissions = [i \in 1..NComm |->
                            LedgerRow(i, "m1", IF i = NComm THEN st ELSE "approved",
                                      3000 * KoboPerNaira, StartTime - SecondsPerDay)]
    /\ payouts = <<>>
    /\ gateway_calls = <<>>
    /\ products = DefaultProducts
    /\ links = DefaultLinks
    /\ attributions = NoAttributions
    /\ clicks = NoRows
    /\ orders = NoRows
    /\ fraud_logs = NoRows
    /\ fraud_calls = 0
    /\ fraud_last = NoResult
    /\ preq = [p \in PayoutReqs |-> IdleReq]
    /\ creq = [r \in ClickReqs |-> IdleClick]
    /\ calc = [p \in CalcProcs |-> IdleCalc]
    /\ calc_last = NoReturn
    /\ payment_logs = NoRows
    /\ wreq = [w \in WebhookReqs |-> IdleHook]
    /\ carts = NoCarts
    /\ customer_orders = NoRows
    /\ chk = IdleCheckout

\* m1 asks for everything available; Paystack reports on transfers it was
\* asked to make
NextLedger ==
    \/ \E p \in PayoutReqs :
          \/ PayoutSelect(p, "m1", NULL)
          \/ PayoutCommit(p)
          \/ PayoutGatewayError(p)
    \/ \E w \in WebhookReqs :
          \/ \E event \in {"transfer.success", "transfer.failed"}, reference \in 1..Len(payouts) :
                WebhookReceive(w, event, reference,
                               IF event = "transfer.failed" THEN "Insufficient balance" ELSE "")
          \/ WebhookSavePayout(w)
          \/ WebhookPayCommissions(w)
    \/ release_held_commissions
    \/ \E commission_id \in 1..NComm : approve_commission(commission_id)

SpecLedger == InitLedger /\ [][NextLedger]_vars

----------------------------------------------------------------------------
(* Clicks and checkouts on one attribution cookie *)

\* cookie k1 clicked l1 a day ago; both buyers have p1 in their carts
InitConversion ==
    /\ db_engine \in DbEngines
    /\ now = StartTime
    /\ users = DefaultUsers
    /\ products = DefaultProducts
    /\ links = [DefaultLinks EXCEPT !["l1"].click_count = 1]
    /\ clicks = <<ClickRow("l1", "10.0.0.1", "Mozilla/5.0", "k1", StartTime - SecondsPerDay, 0)>>
    /\ attributions = [k \in {"k1"} |-> AttributionOf(clicks, StartTime - SecondsPerDay)]
    /\ carts = [b \in Buyers |-> <<CartItem("p1", 1, 3000 * KoboPerNaira)>>]
    /\ orders = NoRows
    /\ commissions = NoRows
    /\ payouts = NoRows
    /\ gateway_calls = <<>>
    /\ fraud_logs = NoRows
    /\ fraud_calls = 0
    /\ fraud_last = NoResult
    /\ preq = [p \in PayoutReqs |-> IdleReq]
    /\ creq = [r \in ClickReqs |-> IdleClick]
    /\ calc = [p \in CalcProcs |-> IdleCalc]
    /\ calc_last = NoReturn
    /\ payment_logs = NoRows
    /\ wreq = [w \in WebhookReqs |-> IdleHook]
    /\ customer_orders = NoRows
    /\ chk = IdleCheckout

\* the visitor of cookie k1 clicks affiliate links from one browser, one
\* request after the other, while the carts are checked out with that cookie
NextConversion ==
    \/ \E buyer \in Buyers, secret_key \in BOOLEAN : CheckoutStart(buyer, "k1", secret_key)
    \/ CheckoutCreateOrder
    \/ CheckoutDetectFraud
    \/ \E provider_answers \in BOOLEAN : CheckoutFinish(provider_answers)
    \/ \E link \in LinkIds : ClickStart(1, "k1", link, "10.0.0.1", "Mozilla/5.0")
    \/ AttributionSave(1)
    \/ ClickCreate(1)
    \/ ClickDetectFraud(1)
    \/ ClickCount(1)

SpecConversion == InitConversion /\ [][NextConversion]_vars

----------------------------------------------------------------------------
(* Claims about process_payout_request *)

Rejected == {"ValueError_bank", "ValueError_minimum", "ValueError_not_enough"}

\* C1 (as claimed): whatever the interleaving of payout requests, a
\* commission's payout reference, once set, is never set to another payout.
C1_PayoutSetAtMostOnce ==
    [][\A c \in 1..Len(commissions) :
          commissions[c].payout # NULL => commissions'[c].payout = commissions[c].payout]_vars

\* C6 (as claimed): when the gateway call fails after the tagging, the Payout
\* row exists with status processing or failed and the selected commissions
\* stay tagged with it.
C6_ClaimKeptOnGatewayFailure ==
    [][\A p \in PayoutReqs :
          (preq[p].pc = "selected" /\ preq'[p].pc = "RuntimeError_gateway") =>
              /\ Len(payouts') = Len(payouts) + 1
              /\ payouts'[Len(payouts')].status \in {"processing", "failed"}
              /\ \A i \in 1..Len(preq[p].commissions_to_pay) :
                    commissions'[preq[p].commissions_to_pay[i]].payout = Len(payouts')]_vars

\* the length of the longest prefix of cands whose nets sum to at most target
LongestPrefix(cands, target) ==
    CHOOSE k \in 0..Len(cands) :
        /\ SumSeq(NetsOf(SubSeq(cands, 1, k))) <= target
        /\ \A j \in (k + 1)..Len(cands) : SumSeq(NetsOf(SubSeq(cands, 1, j))) > target

\* C7: the selection is the longest prefix of the marketer's approved,
\* unclaimed commissions in (approved_at, created_at) order whose nets sum to
\* at most the target (all available without a requested amount, otherwise
\* min(requested, available)); nets [3000, 2000, 4000] with 6000 requested
\* select the first two.
C7_GreedyPrefix ==
    \A p \in PayoutReqs :
        preq[p].pc \in {"selected", "ValueError_not_enough"} =>
            LET cands == preq[p].approved_commissions
                avail == SumSeq(NetsOf(cands))
                target == IF preq[p].requested_amount = NULL THEN avail
                          ELSE Min(preq[p].requested_amount, avail)
            IN
            /\ \A i \in 1..Len(cands) :
                  /\ commissions[cands[i]].marketer = preq[p].marketer
                  /\ commissions[cands[i]].status = "approved"
            /\ \A i, j \in 1..Len(cands) : i < j => OrderBefore(cands[i], cands[j])
            /\ \A c \in 1..Len(commissions) :
                  (/\ commissions[c].marketer = preq[p].marketer
                   /\ commissions[c].status = "approved"
                   /\ commissions[c].payout = NULL) => \E i \in 1..Len(cands) : cands[i] = c
            /\ preq[p].commissions_to_pay = SubSeq(cands, 1, LongestPrefix(cands, target))
            /\ preq[p].running_total = SumSeq(NetsOf(preq[p].commissions_to_pay))
            /\ (/\ NetsOf(cands) = <<3000 * KoboPerNaira, 2000 * KoboPerNaira, 4000 * KoboPerNaira>>
                /\ preq[p].requested_amount = 6000 * KoboPerNaira)
               => (preq[p].pc = "selected" /\ Len(preq[p].commissions_to_pay) = 2)

\* the spec's example, with the candidate order differing from the id order
C7_Witness ==
    \E p \in PayoutReqs :
        /\ preq[p].pc = "selected"
        /\ preq[p].requested_amount = 6000 * KoboPerNaira
        /\ NetsOf(preq[p].approved_commissions)
              = <<3000 * KoboPerNaira, 2000 * KoboPerNaira, 4000 * KoboPerNaira>>
        /\ preq[p].approved_commissions[1] > preq[p].approved_commissions[2]
        /\ preq[p].running_total = 5000 * KoboPerNaira

\* C8: a payout request rejected by a precondition (bank details missing,
\* available total below the minimum, selected total below the minimum)
\* creates no Payout row, changes no commission and does not call the gateway.
C8_RejectionCommitsNothing ==
    [][\A p \in PayoutReqs :
          (preq[p].pc = "idle" /\ preq'[p].pc \in Rejected) =>
              /\ payouts' = payouts
              /\ commissions' = commissions
              /\ gateway_calls' = gateway_calls]_vars

\* a request rejected for a
\* selected total below the minimum although enough was available
C8_Witness ==
    \E p \in PayoutReqs :
        /\ preq[p].pc = "ValueError_not_enough"
        /\ SumSeq(NetsOf(preq[p].approved_commissions)) >= MINIMUM_PAYOUT_NGN * KoboPerNaira
        /\ preq[p].running_total < MINIMUM_PAYOUT_NGN * KoboPerNaira
        /\ payouts = <<>>

----------------------------------------------------------------------------
(* Claims about create_or_update_attribution *)

ClicksOf(cookie_id) == {c \in 1..Len(clicks) : clicks[c].cookie_id = cookie_id}

\* requests whose attribution call has returned and whose click row is not yet written
Attributed(cookie_id) ==
    {r \in ClickReqs : creq[r].pc = "create_click" /\ creq[r].cookie_id = cookie_id}

\* the link of the most recent click attributed to the cookie
LatestLink(cookie_id) ==
    IF Attributed(cookie_id) # {}
    THEN creq[CHOOSE r \in Attributed(cookie_id) : TRUE].link
    ELSE clicks[CHOOSE c \in ClicksOf(cookie_id) : \A d \in ClicksOf(cookie_id) : d <= c].link

\* C2: once every concurrent click on one cookie has been handled, the cookie
\* has its attribution record and the record's click_chain has one entry per
\* click: no read-modify-write of the chain loses an entry.
C2_NoLostChainEntries ==
    (\A r \in ClickReqs : creq[r].pc = "idle") =>
        \A k \in Cookies :
            ClicksOf(k) # {} =>
                /\ k \in DOMAIN attributions
                /\ Len(attributions[k].click_chain) = Cardinality(ClicksOf(k))

\* C3: when clicks are handled one after another, each cookie's click_chain
\* has exactly as many entries as clicks attributed to the cookie so far, and
\* last_click_link is the link of the most recent of them.
C3_SequentialChain ==
    \A k \in Cookies :
        LET touches == Cardinality(ClicksOf(k)) + Cardinality(Attributed(k))
        IN  IF k \in DOMAIN attributions
            THEN /\ touches >= 1
                 /\ Len(attributions[k].click_chain) = touches
                 /\ attributions[k].last_click_link = LatestLink(k)
            ELSE touches = 0

\* C3: three handled clicks on one cookie, the last on another link than the first
C3_Witness ==
    /\ \A r \in ClickReqs : creq[r].pc = "idle"
    /\ \E k \in DOMAIN attributions :
          /\ Len(attributions[k].click_chain) = 3
          /\ Cardinality(ClicksOf(k)) = 3
          /\ attributions[k].last_click_link # attributions[k].first_click_link

----------------------------------------------------------------------------
(* Claims about calculate_commission *)

\* C4: however calculate_commission invocations for one order interleave, the
\* order never has more than one Commission row.
C4_AtMostOneCommissionPerOrder ==
    \A o \in 1..Len(orders) : Cardinality(CommissionsOf(o)) <= 1

\* C5: when invocations run one after another, a call for an order that
\* already has a Commission returns that same row, the only one of the order,
\* and leaves the commission table and every link counter as they were.
C5_SecondCallReturnsExisting ==
    [][\A p \in CalcProcs :
          (/\ calc[p].pc = "lookup"
           /\ calc'[p] # calc[p]
           /\ CommissionsOf(Head(calc[p].queue).id) # {})
          => /\ calc_last'.outcome = "existing"
             /\ calc_last'.order = Head(calc[p].queue).id
             /\ calc_last'.returned = FirstCommissionOf(Head(calc[p].queue).id)
             /\ CommissionsOf(Head(calc[p].queue).id) = {calc_last'.returned}
             /\ commissions' = commissions
             /\ links' = links]_vars

\* C5: a call has returned the commission an earlier call created, after that
\* call had counted the conversion on the marketer's link
C5_Witness ==
    /\ calc_last.outcome = "existing"
    /\ calc_last.returned \in 1..Len(commissions)
    /\ commissions[calc_last.returned].order = calc_last.order
    /\ \E l \in LinkIds : links[l].conversion_count = 1

----------------------------------------------------------------------------
(* Claims about detect_fraud *)

\* C9: whenever detect_fraud has scored an existing entity, the score it
\* reports lies between 0 and 1 (0 and 100 hundredths), and the action is
\* none below 0.3, flagged from 0.3 up to but not including 0.7, and blocked
\* from 0.7 on.
C9_ScoreClampedActionByThreshold ==
    (fraud_last.outcome # "none" /\ fraud_last.found) =>
        /\ fraud_last.fraud_score \in 0..100
        /\ fraud_last.fraud_score < 30 => fraud_last.action = "none"
        /\ (fraud_last.fraud_score >= 30 /\ fraud_last.fraud_score < 70)
              => fraud_last.action = "flagged"
        /\ fraud_last.fraud_score >= 70 => fraud_last.action = "blocked"

\* C9: a call returned a score clamped to 1 from signals that sum to more
C9_Witness ==
    /\ fraud_last.outcome = "returned"
    /\ fraud_last.found
    /\ Len(fraud_last.signals) >= 2
    /\ fraud_last.fraud_score = 100
    /\ fraud_last.action = "blocked"

\* C10: the audit table has one row per detect_fraud invocation made so far,
\* whatever the invocations found.
C10_OneAuditRowPerInvocation == Len(fraud_logs) = fraud_calls

\* the rows that detect_fraud may touch
Scored == <<clicks, orders, users, links>>

\* C11: an invocation of detect_fraud on a click, order or marketer id that
\* names no row does not raise; it returns score 0, no signals and action
\* none, and leaves every click, order, user and affiliate link as it was.
C11_MissingEntityNeutral ==
    [][(/\ fraud_calls' = fraud_calls + 1
        /\ fraud_last'.entity_type \in {"click", "order", "marketer"}
        /\ ~fraud_last'.found)
       => /\ fraud_last'.outcome = "returned"
          /\ fraud_last'.fraud_score = 0
          /\ fraud_last'.signals = <<>>
          /\ fraud_last'.action = "none"
          /\ Scored' = Scored]_vars

\* C11: a call with a click id that names no row has returned, while click
\* rows exist
C11_Witness ==
    /\ fraud_calls >= 1
    /\ fraud_last.outcome = "returned"
    /\ ~fraud_last.found
    /\ fraud_last.entity_type = "click"
    /\ clicks # <<>>

\* C12: after detect_fraud on a marketer has returned blocked, the marketer's
\* account is inactive and so is every affiliate link of the marketer, and
\* the account and all links still exist.
C12_BlockedMarketerSuspended ==
    (/\ fraud_last.outcome = "returned"
     /\ fraud_last.entity_type = "marketer"
     /\ fraud_last.action = "blocked")
    => /\ fraud_last.entity_id \in DOMAIN users
       /\ ~users[fraud_last.entity_id].is_active
       /\ DOMAIN links = LinkIds
       /\ \A l \in LinkIds : links[l].marketer = fraud_last.entity_id => ~links[l].is_active

\* C12: marketer m1, who owns link l1, was blocked
C12_Witness ==
    /\ fraud_last.outcome = "returned"
    /\ fraud_last.entity_type = "marketer"
    /\ fraud_last.action = "blocked"
    /\ fraud_last.entity_id = "m1"
    /\ ~links["l1"].is_active
    /\ links["l2"].is_active

\* C13: when detect_fraud on an order returns blocked the order is cancelled
\* and no order row is removed; when it returns none or flagged the order's
\* status is what it was.
C13_BlockedOrderCancelled ==
    [][(/\ fraud_calls' = fraud_calls + 1
        /\ fraud_last'.entity_type = "order"
        /\ fraud_last'.found
        /\ fraud_last'.outcome = "returned")
       => /\ Len(orders') = Len(orders)
          /\ \A o \in 1..Len(orders) :
                ToString(o) = fraud_last'.entity_id =>
                    IF fraud_last'.action = "blocked"
                    THEN orders'[o].status = "cancelled"
                    ELSE orders'[o].status = orders[o].status]_vars

\* C13: an order that was pending was blocked and is cancelled
C13_Witness ==
    /\ fraud_last.outcome = "returned"
    /\ fraud_last.entity_type = "order"
    /\ fraud_last.action = "blocked"
    /\ \E o \in 1..Len(orders) :
          ToString(o) = fraud_last.entity_id /\ orders[o].status = "cancelled"

\* C14: for every persisted commission, net_commission is commission_amount
\* minus platform_fee_amount, platform_fee_amount is 2.5% of
\* commission_amount, and commission_amount is subtotal x rate / 100 for a
\* percentage product and fixed_commission_amount x quantity otherwise.
C14_PersistedAmountsConsistent ==
    \A c \in 1..Len(commissions) :
        LET row == commissions[c]
            order == orders[row.order]
            product == products[row.product]
        IN  /\ row.net_commission = row.commission_amount - row.platform_fee_amount
            /\ row.platform_fee_amount * 1000 = row.commission_amount * 25
            /\ IF product.commission_type = "percentage"
               THEN row.commission_amount * 10000 = order.subtotal * product.commission_rate
               ELSE row.commission_amount = product.fixed_commission_amount * order.quantity

\* C15: a calculate_commission call on an order that is not delivered, or has
\* no marketer, returns null, creates no Commission row and changes no
\* affiliate-link counter.
C15_NotEligibleIsNoOp ==
    [][\A p \in CalcProcs :
          (/\ calc[p].pc = "lookup"
           /\ calc'[p] # calc[p]
           /\ \/ Head(calc[p].queue).row.status # "delivered"
              \/ Head(calc[p].queue).row.marketer = "")
          => /\ calc_last'.order = Head(calc[p].queue).id
             /\ calc_last'.returned = NULL
             /\ calc'[p].pc \in {"idle", "lookup"}
             /\ commissions' = commissions
             /\ links' = links]_vars

\* C15: a call on a pending order of a marketer has returned null, after a
\* commission was created for another order
C15_Witness ==
    /\ calc_last.outcome = "skipped"
    /\ calc_last.returned = NULL
    /\ orders[calc_last.order].status = "pending"
    /\ orders[calc_last.order].marketer # ""
    /\ commissions # <<>>
    /\ CommissionsOf(calc_last.order) = {}

----------------------------------------------------------------------------
(* Claims about the approval tasks *)

\* C16 (as claimed): a commission becomes approved only from status earned
\* and only when its holdback_until is not after the current time, whichever
\* of release_held_commissions and approve_commission runs.
C16_ApprovedOnlyAfterHoldback ==
    [][\A c \in 1..Len(commissions) :
          (commissions'[c].status = "approved" /\ commissions[c].status # "approved")
          => /\ commissions[c].status = "earned"
             /\ commissions[c].holdback_until <= now]_vars

\* C29: with the release_held_commissions sweep run again and again, a
\* commission that is earned and whose holdback_until has passed is
\* eventually approved; and a commission that is earned is in the candidate
\* set of no payout request.
C29_DueCommissionEventuallyApproved ==
    /\ \A c \in 1..NComm :
          (commissions[c].status = "earned" /\ commissions[c].holdback_until <= now)
          ~> (commissions[c].status = "approved")
    /\ [](\A c \in 1..NComm :
            commissions[c].status = "earned" =>
                \A m \in Marketers :
                    \A i \in 1..Len(ApprovedCommissions(m)) : ApprovedCommissions(m)[i] # c)

\* C29: a commission whose holdback ran until a day after the start has been
\* approved on that day, and is a candidate of its marketer's next payout
C29_Witness ==
    /\ now = StartTime + SecondsPerDay
    /\ \E c \in 1..NComm :
          /\ commissions[c].holdback_until = now
          /\ commissions[c].status = "approved"
          /\ commissions[c].approved_at = now
          /\ \E i \in 1..Len(ApprovedCommissions(commissions[c].marketer)) :
                ApprovedCommissions(commissions[c].marketer)[i] = c

----------------------------------------------------------------------------
(* Claims about the Paystack webhook *)

\* C17: when the handler of a transfer.success delivery carrying the
\* reference of a payout returns, that payout is completed, every commission
\* tagged with it is paid, and its last step changed no other commission.
C17_SuccessCompletesAndPays ==
    [][\A w \in WebhookReqs :
          (/\ wreq[w].event = "transfer.success"
           /\ wreq[w].pc # "returned"
           /\ wreq'[w].pc = "returned"
           /\ PayoutByReference(wreq'[w].reference) # NULL)
          => LET payout == PayoutByReference(wreq'[w].reference)
             IN  /\ payouts'[payout].status = "completed"
                 /\ \A c \in 1..Len(commissions) :
                       IF commissions[c].payout = payout
                       THEN /\ commissions'[c].status = "paid"
                            /\ commissions'[c].payout = payout
                       ELSE commissions'[c] = commissions[c]]_vars

\* C17: a transfer.success delivery for payout 1 has returned; payout 1 is
\* completed with its commissions paid while payout 2 and the other
\* commissions are as they were
C17_Witness ==
    /\ \E w \in WebhookReqs :
          /\ wreq[w].pc = "returned"
          /\ wreq[w].event = "transfer.success"
          /\ wreq[w].payout = 1
    /\ payouts[1].status = "completed"
    /\ payouts[2].status = "processing"
    /\ commissions[1].status = "paid"
    /\ \E c \in 1..Len(commissions) : commissions[c].payout = 2 /\ commissions[c].status = "approved"
    /\ commissions[NComm].status = "approved"

\* C20: a payout that is completed or failed keeps its status, whatever
\* deliveries follow; a processing payout moves to completed or failed only.
C20_TerminalPayoutStatus ==
    [][\A q \in 1..Len(payouts) :
          /\ payouts[q].status \in {"completed", "failed", "cancelled"}
                => payouts'[q].status = payouts[q].status
          /\ payouts[q].status = "processing"
                => payouts'[q].status \in {"processing", "completed", "failed", "cancelled"}]_vars

\* C20: payout 1 is completed and a later transfer.failed delivery with its
\* reference has been turned away
C20_Witness ==
    /\ payouts[1].status = "completed"
    /\ \E w \in WebhookReqs :
          /\ wreq[w].pc = "IntegrityError"
          /\ wreq[w].event = "transfer.failed"
          /\ wreq[w].reference = payouts[1].paystack_transfer_reference

----------------------------------------------------------------------------
(* Claims about checkout *)

\* the attribution record the running checkout reads its credit from
CreditRecord == attributions[chk.attribution_cookie_id]

\* C18 (as claimed): every order created at a checkout whose cookie has an
\* attribution record carries the marketer of the record's last_click_link.
C18_LastClickAlwaysCredited ==
    [][(/\ chk.pc = "create"
        /\ Len(orders') = Len(orders) + 1
        /\ chk.attribution_cookie_id \in DOMAIN attributions)
       => orders'[Len(orders')].marketer = links[CreditRecord.last_click_link].marketer]_vars

\* C18 (amended): an order created at a checkout whose cookie has an
\* attribution record carries the marketer of the record's last_click_link
\* when that link is a link to the order's product, and no marketer
\* otherwise; first_click_link and the click chain play no part.
C18_LastClickCreditedForItsProduct ==
    [][(/\ chk.pc = "create"
        /\ Len(orders') = Len(orders) + 1
        /\ chk.attribution_cookie_id \in DOMAIN attributions)
       => LET order == orders'[Len(orders')]
              last_click_link == links[CreditRecord.last_click_link]
          IN  order.marketer = IF last_click_link.product = order.product
                               THEN last_click_link.marketer ELSE ""]_vars

\* C18: a checkout with cookie k1, first clicked on m1's link and last on
\* m2's, has finished: its order for the product of m2's link is m2's
C18_Witness ==
    /\ chk.pc \in {"201", "502"}
    /\ chk.attribution_cookie_id = "k1"
    /\ attributions["k1"].first_click_link = "l1"
    /\ attributions["k1"].last_click_link = "l2"
    /\ attributions["k1"].converted
    /\ \E o \in 1..Len(orders) :
          /\ orders[o].attribution_cookie_id = "k1"
          /\ orders[o].product = links["l2"].product
          /\ orders[o].product = links["l1"].product
          /\ orders[o].marketer = "m2"

----------------------------------------------------------------------------
(* Claims about the payout ledger *)

TaggedWith(q) == {c \in 1..Len(commissions) : commissions[c].payout = q}

\* C19 (as claimed): every Payout's total_amount is the sum of net_commission
\* over the commissions now tagged with it, and its commission_count is their
\* number.
C19_PayoutMatchesTaggedCommissions ==
    \A q \in 1..Len(payouts) :
        /\ payouts[q].total_amount =
              SumOver(TaggedWith(q), [c \in TaggedWith(q) |-> NetOf(c)])
        /\ payouts[q].commission_count = Cardinality(TaggedWith(q))

----------------------------------------------------------------------------
(* Claims about the counters of an affiliate link *)

\* the commissions created for the marketer and product of link l
CommissionsFor(l) ==
    {c \in 1..Len(commissions) : /\ commissions[c].marketer = links[l].marketer
                                 /\ commissions[c].product = links[l].product}

\* C22 (as claimed): once every calculate_commission call has completed,
\* each link counts every commission of its marketer and product exactly
\* once: conversion_count is their number, total_revenue the sum of their
\* order subtotals and total_commission the sum of their gross commissions.
C22_LinkCountersMatchCommissions ==
    (\A p \in CalcProcs : calc[p].pc = "idle")
    => \A l \in LinkIds :
          /\ links[l].conversion_count = Cardinality(CommissionsFor(l))
          /\ links[l].total_revenue =
                SumOver(CommissionsFor(l),
                        [c \in CommissionsFor(l) |-> commissions[c].gross_sale_amount])
          /\ links[l].total_commission =
                SumOver(CommissionsFor(l),
                        [c \in CommissionsFor(l) |-> commissions[c].commission_amount])

\* the ClickTracking rows of link l
ClickRowsOf(l) == {c \in 1..Len(clicks) : clicks[c].link = l}

\* C23 (as claimed): once every handle_affiliate_click call has ended, the
\* click_count of each link is the number of ClickTracking rows of the link.
C23_ClickCountMatchesRows ==
    (\A r \in ClickReqs : creq[r].pc = "idle")
    => \A l \in LinkIds : links[l].click_count = Cardinality(ClickRowsOf(l))

----------------------------------------------------------------------------
(* Claims about the scoring of clicks and orders *)

\* the clicks from the address of click c that fall in the trailing window
SameIp(c, window) ==
    {d \in 1..Len(clicks) : /\ clicks[d].ip_address = clicks[c].ip_address
                            /\ clicks[d].clicked_at > now - window}

\* the points the three click signals should contribute to click c
SpamPoints(c) ==
    IF Cardinality({d \in SameIp(c, 5 * SecondsPerMinute) : clicks[d].link = clicks[c].link}) > 5
    THEN 40 ELSE 0
VelocityPoints(c) == IF Cardinality(SameIp(c, SecondsPerMinute)) > 10 THEN 30 ELSE 0
BotPoints(c) == IF clicks[c].user_agent \in BotAgents THEN 50 ELSE 0

\* C25: the score detect_fraud computes for a click is the sum, clamped to
\* 1.0, of +0.4 for more than 5 clicks from its IP on its link in the last 5
\* minutes, +0.3 for more than 10 clicks from its IP in the last minute and
\* +0.5 for a bot user agent; a bot user agent alone gives 0.5 and flagged,
\* click spam plus a bot user agent give 0.9 and blocked.
C25_ClickScoreIsClampedSum ==
    [][(/\ fraud_calls' = fraud_calls + 1
        /\ fraud_last'.entity_type = "click"
        /\ fraud_last'.found)
       => \A c \in 1..Len(clicks) :
             ToString(c) = fraud_last'.entity_id =>
                LET sum == SpamPoints(c) + VelocityPoints(c) + BotPoints(c)
                IN  /\ fraud_last'.fraud_score = IF sum > 100 THEN 100 ELSE sum
                    /\ (SpamPoints(c) = 0 /\ VelocityPoints(c) = 0 /\ BotPoints(c) = 50)
                       => fraud_last'.fraud_score = 50 /\ fraud_last'.action = "flagged"
                    /\ (SpamPoints(c) = 40 /\ VelocityPoints(c) = 0 /\ BotPoints(c) = 50)
                       => fraud_last'.fraud_score = 90 /\ fraud_last'.action = "blocked"]_vars

\* C25: the sixth click within five minutes from one address on one link,
\* sent by a bot, was scored 0.9 and blocked
C25_Witness ==
    /\ fraud_last.outcome = "returned"
    /\ fraud_last.entity_type = "click"
    /\ fraud_last.signals = <<"Click spam from same IP", "Bot user agent detected">>
    /\ fraud_last.fraud_score = 90
    /\ fraud_last.action = "blocked"
    /\ Len(clicks) = 6

\* C26: scoring a click changes the click row if and only if the score is
\* above 0, and then sets is_suspicious = (score >= 0.3), is_bot = (bot user
\* agent) and fraud_score = min(score, 1.0); whatever the action, no click
\* row is removed and no other click, link, user or attribution record
\* changes.
C26_ClickOnlyAnnotated ==
    [][(/\ fraud_calls' = fraud_calls + 1
        /\ fraud_last'.entity_type = "click"
        /\ fraud_last'.found)
       => /\ Len(clicks') = Len(clicks)
          /\ links' = links
          /\ users' = users
          /\ attributions' = attributions
          /\ \A c \in 1..Len(clicks) :
                IF ToString(c) = fraud_last'.entity_id /\ fraud_last'.fraud_score > 0
                THEN clicks'[c] = [clicks[c] EXCEPT
                                      !.is_suspicious = fraud_last'.fraud_score >= 30,
                                      !.is_bot = clicks[c].user_agent \in BotAgents,
                                      !.fraud_score = fraud_last'.fraud_score]
                ELSE clicks'[c] = clicks[c]]_vars

\* C26: a click was blocked; its row is still there, annotated as a bot
C26_Witness ==
    /\ fraud_last.outcome = "returned"
    /\ fraud_last.entity_type = "click"
    /\ fraud_last.action = "blocked"
    /\ \E c \in 1..Len(clicks) :
          /\ ToString(c) = fraud_last.entity_id
          /\ clicks[c].is_suspicious
          /\ clicks[c].is_bot
          /\ clicks[c].fraud_score = fraud_last.fraud_score

\* the order has no attribution record
Unattributed(o) ==
    \/ orders[o].attribution_cookie_id = ""
    \/ orders[o].attribution_cookie_id \notin DOMAIN attributions

\* C27: scoring an order that has no attribution record gives a score of at
\* least 0.6 with the signal "No attribution record found" and the action
\* flagged or blocked; when that is the only signal, the score is exactly
\* 0.6, the action is flagged and the order's status is what it was.
C27_UnattributedOrderFlagged ==
    [][(/\ fraud_calls' = fraud_calls + 1
        /\ fraud_last'.entity_type = "order"
        /\ fraud_last'.found)
       => \A o \in 1..Len(orders) :
             (ToString(o) = fraud_last'.entity_id /\ Unattributed(o)) =>
                /\ fraud_last'.outcome = "returned"
                /\ fraud_last'.fraud_score >= 60
                /\ \E i \in 1..Len(fraud_last'.signals) :
                      fraud_last'.signals[i] = "No attribution record found"
                /\ fraud_last'.action \in {"flagged", "blocked"}
                /\ fraud_last'.signals = <<"No attribution record found">>
                   => /\ fraud_last'.fraud_score = 60
                      /\ fraud_last'.action = "flagged"
                      /\ orders'[o].status = orders[o].status]_vars

\* C27: an order whose cookie has no attribution record was scored 0.6 and
\* flagged, and is still pending
C27_Witness ==
    /\ fraud_last.outcome = "returned"
    /\ fraud_last.entity_type = "order"
    /\ fraud_last.fraud_score = 60
    /\ fraud_last.action = "flagged"
    /\ \E o \in 1..Len(orders) :
          /\ ToString(o) = fraud_last.entity_id
          /\ orders[o].attribution_cookie_id = "k2"
          /\ Unattributed(o)
          /\ orders[o].status = "pending"

\* C28 (as claimed): every scored order whose marketer joined less than 7
\* days ago and whose total exceeds 100,000 carries the signal "High-value
\* order by new marketer", whether or not it has an attribution record; with
\* no attribution record it scores 0.9 and is blocked.
C28_HighValueNewMarketerAlwaysScored ==
    [][(/\ fraud_calls' = fraud_calls + 1
        /\ fraud_last'.entity_type = "order"
        /\ fraud_last'.found)
       => \A o \in 1..Len(orders) :
             (/\ ToString(o) = fraud_last'.entity_id
              /\ orders[o].marketer # ""
              /\ (now - users[orders[o].marketer].created_at) \div SecondsPerDay < 7
              /\ orders[o].total_amount > 100000 * KoboPerNaira)
             => /\ \E i \in 1..Len(fraud_last'.signals) :
                      fraud_last'.signals[i] = "High-value order by new marketer"
                /\ Unattributed(o) => fraud_last'.fraud_score = 90 /\ fraud_last'.action = "blocked"]_vars

----------------------------------------------------------------------------
(* Claims about the ledger as a whole *)

\* the payout a commission is tagged with has the given status
PayoutIs(c, status) ==
    /\ commissions[c].payout # NULL
    /\ payouts[commissions[c].payout].status = status

\* C21 (as claimed): a commission tagged with a failed payout keeps its
\* payout reference and its status in every later step: no later payout
\* request claims it.
C21_FailedPayoutKeepsCommissions ==
    [][\A c \in 1..Len(commissions) :
          PayoutIs(c, "failed")
          => /\ commissions'[c].payout = commissions[c].payout
             /\ commissions'[c].status = commissions[c].status]_vars

\* C30 (as claimed): no step leaves a commission paid unless it is tagged
\* with a completed payout, and no step moves a paid commission to approved.
C30_PaidMeansCompletedPayout ==
    [][\A c \in 1..Len(commissions) :
          /\ commissions'[c].status = "paid"
             => /\ commissions'[c].payout # NULL
                /\ payouts'[commissions'[c].payout].status = "completed"
          /\ commissions[c].status = "paid" => commissions'[c].status # "approved"]_vars

----------------------------------------------------------------------------
(* Claims about converted attribution records *)

\* C24 (as claimed): once an attribution record is converted, no click
\* changes its last_click_link, click_chain or expires_at and no checkout
\* changes its converted_at or its order.
C24_ConvertedAttributionFrozen ==
    [][\A k \in DOMAIN attributions :
          attributions[k].converted
          => /\ attributions'[k].converted
             /\ attributions'[k].last_click_link = attributions[k].last_click_link
             /\ attributions'[k].click_chain = attributions[k].click_chain
             /\ attributions'[k].expires_at = attributions[k].expires_at
             /\ attributions'[k].converted_at = attributions[k].converted_at
             /\ attributions'[k].order = attributions[k].order]_vars

====
